---- MODULE Spec2Model ----
(***************************************************************************)
(* Change-point detection ensemble (Module/ChangePointDetector.py) and its *)
(* impact analysis (Module/ChangePointAnalyzer.py).                        *)
(*                                                                         *)
(* Numbers.  A score is held in tenths (6.1 is 61), so that every value of *)
(* the input table is an integer.  Quantities that are quotients in the    *)
(* code (means, L2 costs, gains) are exact rationals <<num, den>> with     *)
(* den > 0; comparisons are made by cross-multiplication.  A squared       *)
(* quantity (a cost, a penalty) is therefore in hundredths: the code's     *)
(* pen=10 is 1000 here.  The model is exact where the code is IEEE double. *)
(***************************************************************************)
EXTENDS Integers, Sequences, FiniteSets, TLC

VARIABLES
    data,            \* ChangePointDetector.data / ChangePointAnalyzer.data: the input table
    target_year,     \* ChangePointDetector.target_year
    tolerance,       \* ChangePointDetector.tolerance
    HAS_BAYESIAN,    \* module flag set by the import at load time
    partial_bound,   \* whether the module global `partial` has been bound (by analyze_all)
    call,            \* the last detector method called, with its arguments
    detected,        \* the DataFrame that call returned (a sequence of rows)
    caught,          \* (series_id, method) pairs whose exception the last call caught
    detect_raised,   \* the exception the last detector call raised to its caller, or ""
    impact_raised,   \* the exception the last analyze_impact call raised, or ""
    summary_table,   \* ChangePointAnalyzer.summary_table
    impact_call,     \* the last analyze_impact call, with its argument
    returned         \* what the last analyze_impact call returned

vars == <<data, target_year, tolerance, HAS_BAYESIAN, partial_bound, call,
          detected, caught, detect_raised, impact_raised, summary_table,
          impact_call, returned>>

(***************************************************************************)
(* Bounds of the model.                                                    *)
(***************************************************************************)
\* longest series whose values are enumerated exhaustively
MaxShortLen == 4

(***************************************************************************)
(* Exact arithmetic.                                                       *)
(***************************************************************************)
Abs(x) == IF x < 0 THEN -x ELSE x

RECURSIVE Gcd(_, _)
Gcd(a, b) == IF b = 0 THEN Abs(a) ELSE Gcd(b, a % b)

\* the rational n/d (d # 0) in lowest terms with a positive denominator
Rat(n, d) ==
    LET g == Gcd(Abs(n), Abs(d))
        s == IF d < 0 THEN -1 ELSE 1
    IN  <<(s * n) \div g, (s * d) \div g>>

RInt(n) == <<n, 1>>
RAdd(p, q) == Rat(p[1] * q[2] + q[1] * p[2], p[2] * q[2])
RSub(p, q) == Rat(p[1] * q[2] - q[1] * p[2], p[2] * q[2])
RLess(p, q) == p[1] * q[2] < q[1] * p[2]
RLeq(p, q) == p[1] * q[2] <= q[1] * p[2]
REq(p, q) == p[1] * q[2] = q[1] * p[2]
RAbs(p) == <<Abs(p[1]), p[2]>>

RECURSIVE SumSeq(_)
SumSeq(s) == IF s = <<>> THEN 0 ELSE Head(s) + SumSeq(Tail(s))

RECURSIVE SumSq(_)
SumSq(s) == IF s = <<>> THEN 0 ELSE Head(s) * Head(s) + SumSq(Tail(s))

\* Len(s) times the sum of squared deviations of s from its mean, an integer
DevNum(s) == Len(s) * SumSq(s) - SumSeq(s) * SumSeq(s)

\* s[a+1 .. b] in 1-based terms, i.e. the Python slice s[a:b]
Slice(s, a, b) == IF b <= a THEN <<>> ELSE SubSeq(s, a + 1, b)

(***************************************************************************)
(* Values of the Python side that TLA+ has no literal for.                 *)
(***************************************************************************)
\* Python None, as the value of an optional field; Some(y) is a present value
None == <<>>
Some(y) == <<y>>
\* the float NaN pandas fills a missing column with
NaN == "NaN"

\* string order of the series identifiers and of the algorithm names, as
\* sort_values compares them (ASCII order)
SeriesOrder == <<"A", "B">>
AlgorithmOrder == <<"Bayesian_Offline", "CUSUM_Mean", "Ruptures_binseg_l2",
                    "Ruptures_pelt_l2", "Ruptures_window_l2">>
Rank(order, x) == CHOOSE i \in 1..Len(order) : order[i] = x

(***************************************************************************)
(* Sequence helpers.                                                       *)
(***************************************************************************)
RECURSIVE SelectRows(_, _)
SelectRows(rows, sid) ==
    IF rows = <<>> THEN <<>>
    ELSE IF Head(rows).series_id = sid
         THEN <<Head(rows)>> \o SelectRows(Tail(rows), sid)
         ELSE SelectRows(Tail(rows), sid)

\* insert row r into the year-sorted sequence s, after the rows of equal year
RECURSIVE InsertByYear(_, _)
InsertByYear(s, r) ==
    IF s = <<>> THEN <<r>>
    ELSE IF r.year < Head(s).year THEN <<r>> \o s
         ELSE <<Head(s)>> \o InsertByYear(Tail(s), r)

\* DataFrame.sort_values('year')
RECURSIVE SortByYear(_)
SortByYear(rows) ==
    IF rows = <<>> THEN <<>>
    ELSE InsertByYear(SortByYear(SubSeq(rows, 1, Len(rows) - 1)), rows[Len(rows)])

\* data['series_id'].unique(): the identifiers in order of first appearance
RECURSIVE Unique(_, _)
Unique(rows, seen) ==
    IF rows = <<>> THEN <<>>
    ELSE IF Head(rows).series_id \in seen THEN Unique(Tail(rows), seen)
         ELSE <<Head(rows).series_id>> \o Unique(Tail(rows), seen \cup {Head(rows).series_id})

unique_series(table) == Unique(table, {})

(***************************************************************************)
(* ChangePointDetector helpers.                                            *)
(***************************************************************************)
\* _get_signal: the rows of one series sorted by year, as (value, year) arrays;
\* None when the series has no row
RECURSIVE ValueColumn(_)
ValueColumn(rows) ==
    IF rows = <<>> THEN <<>> ELSE <<Head(rows).value>> \o ValueColumn(Tail(rows))

RECURSIVE YearColumn(_)
YearColumn(rows) ==
    IF rows = <<>> THEN <<>> ELSE <<Head(rows).year>> \o YearColumn(Tail(rows))

\* self.data after a sort of the whole table in place by year
data_sorted_in_place(table) == SortByYear(table)

\* self.data after _get_signal has run for every series: the selection by
\* boolean mask and sort_values('year') build a new frame each, and the
\* detector's table is left as it was
data_after_get_signal(table) == table

\* self.data of the analyzer after _get_series, which reads the same way
data_after_get_series(table) == table

\* _get_signal without sort_values('year'): the rows in the order of the table
get_signal_unsorted(table, sid) ==
    IF SelectRows(table, sid) = <<>> THEN None
    ELSE [value |-> ValueColumn(SelectRows(table, sid)),
          year |-> YearColumn(SelectRows(table, sid))]

\* _get_signal without the selection of the series: the rows of every series
get_signal_all_series(table, sid) ==
    IF table = <<>> THEN None
    ELSE [value |-> ValueColumn(SortByYear(table)), year |-> YearColumn(SortByYear(table))]

get_signal(table, sid) ==
    LET df_sub == SortByYear(SelectRows(table, sid))
    IN  IF df_sub = <<>> THEN None
        ELSE [value |-> ValueColumn(df_sub), year |-> YearColumn(df_sub)]

\* the mapping to the year at the index itself: idx (0 < idx < n) is reported
\* as years_arr[idx] (0-based), the year of the first point after the break
RECURSIVE map_indices_to_years_at_index(_, _)
map_indices_to_years_at_index(indices, years_arr) ==
    IF indices = <<>> THEN <<>>
    ELSE LET idx == Head(indices)
             rest == map_indices_to_years_at_index(Tail(indices), years_arr)
         IN  IF 0 < idx /\ idx < Len(years_arr)
             THEN <<years_arr[idx + 1]>> \o rest
             ELSE rest

\* _map_indices_to_years: index idx (0 < idx <= n) is reported as years_arr[idx-1]
\* (0-based), which is years_arr[idx] in the 1-based sequences of this module
\* shifted down by one
RECURSIVE map_indices_to_years(_, _)
map_indices_to_years(indices, years_arr) ==
    IF indices = <<>> THEN <<>>
    ELSE LET idx == Head(indices)
             rest == map_indices_to_years(Tail(indices), years_arr)
         IN  IF 0 < idx /\ idx <= Len(years_arr)
             THEN <<years_arr[(idx - 1) + 1]>> \o rest
             ELSE rest

\* check_target_hit with the comparison made strict (abs(y - target) < tol)
RECURSIVE check_target_hit_strict(_, _, _)
check_target_hit_strict(detected_years, target, tol) ==
    IF detected_years = <<>> THEN [is_hit |-> FALSE, hit_val |-> None]
    ELSE IF Abs(Head(detected_years) - target) < tol
         THEN [is_hit |-> TRUE, hit_val |-> Some(Head(detected_years))]
         ELSE check_target_hit_strict(Tail(detected_years), target, tol)

\* check_target_hit without the early return: the last year within tolerance
RECURSIVE check_target_hit_last(_, _, _)
check_target_hit_last(detected_years, target, tol) ==
    IF detected_years = <<>> THEN [is_hit |-> FALSE, hit_val |-> None]
    ELSE IF Abs(detected_years[Len(detected_years)] - target) <= tol
         THEN [is_hit |-> TRUE, hit_val |-> Some(detected_years[Len(detected_years)])]
         ELSE check_target_hit_last(SubSeq(detected_years, 1, Len(detected_years) - 1),
                                    target, tol)

\* check_target_hit: (True, y) for the first y of detected_years within
\* tolerance of target_year, else (False, None)
RECURSIVE check_target_hit(_, _, _)
check_target_hit(detected_years, target, tol) ==
    IF detected_years = <<>> THEN [is_hit |-> FALSE, hit_val |-> None]
    ELSE IF Abs(Head(detected_years) - target) <= tol
         THEN [is_hit |-> TRUE, hit_val |-> Some(Head(detected_years))]
         ELSE check_target_hit(Tail(detected_years), target, tol)

(***************************************************************************)
(* 2. CUSUM                                                                *)
(***************************************************************************)
\* np.cumsum(signal - np.mean(signal)) from index i on, `before` being the sum
\* of signal[1..i-1] and total the sum of signal: exact rationals
RECURSIVE cumsum_from(_, _, _, _)
cumsum_from(signal, i, before, total) ==
    IF i > Len(signal) THEN <<>>
    ELSE <<Rat(Len(signal) * (before + signal[i]) - i * total, Len(signal))>>
         \o cumsum_from(signal, i + 1, before + signal[i], total)

\* np.mean(signal) is computed in float64: the running sum of a constant
\* signal can round, and the mean then differs from the value by one unit in
\* the last place.  For the constant signals of the values 4.0, 4.5, 6.0, 6.1
\* and 6.2 with 3 to 8 points it does for these <<value in tenths, length>>,
\* the third component being the sign of value - mean; signals of four equal
\* values never round, 2-power multiples of a value being exact.
MeanRoundsOff ==
    {<<61, 3, 1>>, <<61, 6, -1>>, <<61, 7, -1>>, <<61, 8, -1>>,
     <<62, 7, -1>>, <<62, 8, -1>>}

\* the sign of signal[i] - np.mean(signal) on a constant signal (0: the mean
\* is the value itself)
mean_error_sign(signal) ==
    IF \E e \in MeanRoundsOff :
           /\ Len(signal) = e[2]
           /\ \A i \in 1..Len(signal) : signal[i] = e[1]
    THEN (CHOOSE e \in MeanRoundsOff : Len(signal) = e[2] /\ signal[1] = e[1])[3]
    ELSE 0

\* cusum[i] = sum_{j<=i} (signal[j] - mean(signal)).  On a constant signal
\* whose mean rounds, every term is the same rounding error and the curve is
\* its multiples (the error is written 10^-8; only the order of the curve's
\* values is used)
cusum_curve(signal) ==
    IF mean_error_sign(signal) # 0
    THEN [k \in 1..Len(signal) |-> Rat(k * mean_error_sign(signal), 100000000)]
    ELSE cumsum_from(signal, 1, 0, SumSeq(signal))

\* np.argmax(c), the absolute value forgotten: the first index of the largest c[i]
argmax_plain(c) ==
    CHOOSE i \in 1..Len(c) :
        /\ \A j \in 1..Len(c) : RLeq(c[j], c[i])
        /\ \A j \in 1..(i - 1) : RLess(c[j], c[i])

\* np.argmax(np.abs(c)): the first index (1-based here) of the largest |c[i]|
argmax_abs(c) ==
    CHOOSE i \in 1..Len(c) :
        /\ \A j \in 1..Len(c) : RLeq(RAbs(c[j]), RAbs(c[i]))
        /\ \A j \in 1..(i - 1) : RLess(RAbs(c[j]), RAbs(c[i]))

\* np.std(signal) == 0: the deviations from the computed mean are all 0
std_is_zero(signal) == DevNum(signal) = 0 /\ mean_error_sign(signal) = 0

\* detect_cusum's detected_year without the test of np.std(signal)
cusum_detected_year_unguarded(signal, years, cusum) == <<years[argmax_abs(cusum)]>>

\* the detected_year list of detect_cusum for one series, cusum being its
\* cumulative-sum curve
cusum_detected_year(signal, years, cusum) ==
    IF std_is_zero(signal) THEN <<>>
    ELSE <<years[argmax_abs(cusum)]>>

\* the body of the for loop of detect_cusum for one series: the row appended
cusum_row(sid, sig, target, tol) ==
    LET cusum == cusum_curve(sig.value)
        detected_year == cusum_detected_year(sig.value, sig.year, cusum)
        hit == check_target_hit(detected_year, target, tol)
    IN  [series_id |-> sid, algorithm |-> "CUSUM_Mean",
         detected_years |-> detected_year,
         hit_target |-> hit.is_hit, hit_year |-> hit.hit_val,
         cusum_values |-> cusum]

\* the guard of every detector loop: `signal is None or len(signal) < min_len`
\* skips the series
skipped(sig, min_len) == sig = None \/ Len(sig.value) < min_len

RECURSIVE cusum_rows(_, _, _, _)
cusum_rows(table, sids, target, tol) ==
    IF sids = <<>> THEN <<>>
    ELSE LET sig == get_signal(table, Head(sids))
         IN  (IF skipped(sig, 3) THEN <<>>
              ELSE <<cusum_row(Head(sids), sig, target, tol)>>)
             \o cusum_rows(table, Tail(sids), target, tol)

(***************************************************************************)
(* 1. The ruptures library, as detect_ruptures uses it: cost model "l2"    *)
(* and the estimators Pelt, Binseg and Window built with the library's     *)
(* default min_size and jump (the calls at lines 83, 86 and 89 pass        *)
(* neither).                                                               *)
(***************************************************************************)
\* default `min_size` of rpt.Pelt / rpt.Binseg / rpt.Window
min_size == 2
\* default `jump` of rpt.Pelt / rpt.Binseg / rpt.Window: candidate
\* breakpoints are the multiples of jump
jump == 5
\* CostL2.min_size
cost_min_size == 1

Max(a, b) == IF a >= b THEN a ELSE b
Min(a, b) == IF a <= b THEN a ELSE b
CeilDiv(a, b) == (a + b - 1) \div b

\* range(start, stop, step) as an ascending sequence
RECURSIVE Range(_, _, _)
Range(start, stop, step) ==
    IF start >= stop THEN <<>> ELSE <<start>> \o Range(start + step, stop, step)

\* the elements of s that are at least lo and below hi, in order
RECURSIVE Within(_, _, _)
Within(s, lo, hi) ==
    IF s = <<>> THEN <<>>
    ELSE (IF lo <= Head(s) /\ Head(s) < hi THEN <<Head(s)>> ELSE <<>>)
         \o Within(Tail(s), lo, hi)

\* bkps.append(b); bkps.sort()
RECURSIVE SortedInsert(_, _)
SortedInsert(s, b) ==
    IF s = <<>> THEN <<b>>
    ELSE IF b < Head(s) THEN <<b>> \o s
         ELSE <<Head(s)>> \o SortedInsert(Tail(s), b)

\* CostL2.error(start, end) = signal[start:end].var() * (end - start), the sum
\* of squared deviations of the segment from its own mean (end - start >= 1)
cost_error(signal, start, end) ==
    Rat(DevNum(Slice(signal, start, end)), end - start)

\* BaseCost.sum_of_costs(bkps): the cost of the segmentation with ends bkps
RECURSIVE sum_of_costs_from(_, _, _)
sum_of_costs_from(signal, start, bkps) ==
    IF bkps = <<>> THEN RInt(0)
    ELSE RAdd(cost_error(signal, start, Head(bkps)),
              sum_of_costs_from(signal, Head(bkps), Tail(bkps)))

sum_of_costs(signal, bkps) == sum_of_costs_from(signal, 0, bkps)

\* ruptures.utils.sanity_check
sanity_check(n_samples, n_bkps, jump_, min_size_) ==
    LET n_adm_bkps == n_samples \div jump_
    IN  /\ ~(n_bkps > n_adm_bkps)
        /\ ~(n_bkps * CeilDiv(min_size_, jump_) * jump_ + min_size_ > n_samples)

\* the outcome of a call that may raise: the value returned, or the name of
\* the exception raised
Return(v) == [raised |-> "", value |-> v]
Raise(name) == [raised |-> name, value |-> <<>>]
IsRaise(r) == r.raised # ""

(***************************************************************************)
(* Pelt                                                                    *)
(***************************************************************************)
\* Pelt._seg: the candidate ends, in the order the recursion visits them
pelt_ind(n) ==
    Within(Range(0, n, jump), Max(min_size, cost_min_size), n) \o <<n>>

\* the i-th subproblem of one step: the partitions[t] of the admissible t that
\* have one, each extended by the segment (t, bkp) at cost error + pen
RECURSIVE pelt_subproblems(_, _, _, _, _)
pelt_subproblems(signal, pen, partitions, admissible, bkp) ==
    IF admissible = <<>> THEN <<>>
    ELSE LET t == Head(admissible)
             rest == pelt_subproblems(signal, pen, partitions, Tail(admissible), bkp)
         IN  IF t \notin DOMAIN partitions THEN rest
             ELSE <<[ends  |-> Append(partitions[t].ends, bkp),
                     total |-> RAdd(partitions[t].total,
                                    RAdd(cost_error(signal, t, bkp), pen))]>> \o rest

\* min(subproblems, key=lambda d: sum(d.values())): the first of least total
pelt_best(subproblems) ==
    LET i == CHOOSE i \in 1..Len(subproblems) :
                 /\ \A j \in 1..Len(subproblems) :
                        RLeq(subproblems[i].total, subproblems[j].total)
                 /\ \A j \in 1..(i - 1) :
                        RLess(subproblems[i].total, subproblems[j].total)
    IN  subproblems[i]

\* the pruning rule: t stays admissible when the subproblem zip() pairs it
\* with costs at most the best one plus pen
RECURSIVE pelt_select(_, _, _, _, _)
pelt_select(admissible, subproblems, best, pen, k) ==
    IF k > Min(Len(admissible), Len(subproblems)) THEN <<>>
    ELSE (IF RLeq(subproblems[k].total, RAdd(best.total, pen))
          THEN <<admissible[k]>> ELSE <<>>)
         \o pelt_select(admissible, subproblems, best, pen, k + 1)

RECURSIVE pelt_loop(_, _, _, _, _)
pelt_loop(signal, pen, ind, partitions, admissible) ==
    IF ind = <<>> THEN partitions[Len(signal)]
    ELSE LET bkp == Head(ind)
             new_adm_pt == ((bkp - min_size) \div jump) * jump
             adm == Append(admissible, new_adm_pt)
             subproblems == pelt_subproblems(signal, pen, partitions, adm, bkp)
             best == pelt_best(subproblems)
         IN  pelt_loop(signal, pen, Tail(ind),
                       [t \in DOMAIN partitions \cup {bkp} |->
                            IF t = bkp THEN best ELSE partitions[t]],
                       pelt_select(adm, subproblems, best, pen, 1))

\* Pelt(model="l2").fit(signal).predict(pen): the sorted segment ends, the
\* last of which is len(signal)
\* Pelt.predict with the penalty inverted (1 / pen; in hundredths 10000 / pen)
pelt_predict_reciprocal(signal, pen) ==
    IF ~sanity_check(Len(signal), 0, jump, Max(min_size, cost_min_size))
    THEN Raise("BadSegmentationParameters")
    ELSE Return(pelt_loop(signal, Rat(10000, pen), pelt_ind(Len(signal)),
                   (0 :> [ends |-> <<>>, total |-> RInt(0)]), <<>>).ends)

\* Pelt.predict charging each segment -pen instead of pen
pelt_predict_negated(signal, pen) ==
    IF ~sanity_check(Len(signal), 0, jump, Max(min_size, cost_min_size))
    THEN Raise("BadSegmentationParameters")
    ELSE Return(pelt_loop(signal, RInt(-pen), pelt_ind(Len(signal)),
                   (0 :> [ends |-> <<>>, total |-> RInt(0)]), <<>>).ends)

pelt_predict(signal, pen) ==
    IF ~sanity_check(Len(signal), 0, jump, Max(min_size, cost_min_size))
    THEN Raise("BadSegmentationParameters")
    ELSE Return(pelt_loop(signal, RInt(pen), pelt_ind(Len(signal)),
                   (0 :> [ends |-> <<>>, total |-> RInt(0)]), <<>>).ends)

(***************************************************************************)
(* Binseg                                                                  *)
(***************************************************************************)
\* the (gain, bkp) candidates of Binseg.single_bkp, in the order of the loop
RECURSIVE binseg_gain_list(_, _, _, _)
binseg_gain_list(signal, start, end, cands) ==
    IF cands = <<>> THEN <<>>
    ELSE LET bkp == Head(cands)
             rest == binseg_gain_list(signal, start, end, Tail(cands))
         IN  IF bkp - start >= Max(min_size, cost_min_size)
                /\ end - bkp >= Max(min_size, cost_min_size)
             THEN <<[gain |-> RSub(cost_error(signal, start, end),
                                   RAdd(cost_error(signal, start, bkp),
                                        cost_error(signal, bkp, end))),
                     bkp |-> bkp]>> \o rest
             ELSE rest

\* Binseg.single_bkp(start, end): the best split of [start:end] as (bkp, gain),
\* max() over the (gain, bkp) tuples; (None, 0) when no split is admissible
single_bkp(signal, start, end) ==
    LET best(gain_list, i) == [bkp |-> Some(gain_list[i].bkp), gain |-> gain_list[i].gain]
        max(gain_list) ==
            IF gain_list = <<>> THEN [bkp |-> None, gain |-> RInt(0)]
            ELSE best(gain_list,
                      CHOOSE i \in 1..Len(gain_list) :
                          \A j \in 1..Len(gain_list) :
                              \/ RLess(gain_list[j].gain, gain_list[i].gain)
                              \/ /\ REq(gain_list[j].gain, gain_list[i].gain)
                                 /\ gain_list[j].bkp <= gain_list[i].bkp)
    IN  max(binseg_gain_list(signal, start, end, Range(start, end, jump)))

\* [single_bkp(start, end) for start, end in pairwise([0] + bkps)]
RECURSIVE binseg_new_bkps(_, _, _)
binseg_new_bkps(signal, start, bkps) ==
    IF bkps = <<>> THEN <<>>
    ELSE <<single_bkp(signal, start, Head(bkps))>>
         \o binseg_new_bkps(signal, Head(bkps), Tail(bkps))

\* max(new_bkps, key=lambda x: x[1]): the first of largest gain
binseg_max(new_bkps) ==
    LET i == CHOOSE i \in 1..Len(new_bkps) :
                 /\ \A j \in 1..Len(new_bkps) : RLeq(new_bkps[j].gain, new_bkps[i].gain)
                 /\ \A j \in 1..(i - 1) : RLess(new_bkps[j].gain, new_bkps[i].gain)
    IN  new_bkps[i]

\* Binseg._seg(n_bkps=n_bkps): the while loop, from the current bkps
RECURSIVE binseg_seg(_, _, _)
binseg_seg(signal, n_bkps, bkps) ==
    LET body(best) ==
            IF best.bkp = None THEN bkps
            ELSE IF Len(bkps) - 1 < n_bkps
                 THEN binseg_seg(signal, n_bkps, SortedInsert(bkps, best.bkp[1]))
                 ELSE bkps
    IN  body(binseg_max(binseg_new_bkps(signal, 0, bkps)))

\* Binseg(model="l2").fit(signal).predict(n_bkps=n_bkps)
binseg_predict(signal, n_bkps) ==
    IF ~sanity_check(Len(signal), n_bkps, jump, Max(min_size, cost_min_size))
    THEN Raise("BadSegmentationParameters")
    ELSE Return(binseg_seg(signal, n_bkps, <<Len(signal)>>))

(***************************************************************************)
(* Window                                                                  *)
(***************************************************************************)
\* Window.__init__: self.width = 2 * (width // 2)
window_width(width) == 2 * (width \div 2)

\* Window.fit: the candidate indexes, borders deleted
window_inds(n, width) ==
    Within(Range(0, n, jump), window_width(width) \div 2,
           n - window_width(width) \div 2)

\* Window.fit: the score of candidate k, the gain of splitting the window
\* centred on k in its middle
window_score(signal, width, k) ==
    LET h == window_width(width) \div 2
    IN  RSub(cost_error(signal, k - h, k + h),
             RAdd(cost_error(signal, k - h, k), cost_error(signal, k, k + h)))

\* scipy.signal.argrelmax(score, order=order, mode="wrap"): the positions
\* strictly above their neighbours at distance 1..order, indexes wrapping
window_is_peak(score, i, order) ==
    LET m == Len(score)
        at(j) == score[((j - 1) % m) + 1]
    IN  \A shift \in 1..order :
            RLess(at(i + shift), score[i]) /\ RLess(at(i - shift), score[i])

\* the peaks as (gain, index) pairs sorted ascending, as sorted(zip(...))
RECURSIVE window_sorted_insert(_, _)
window_sorted_insert(s, p) ==
    IF s = <<>> THEN <<p>>
    ELSE IF RLess(p.gain, Head(s).gain)
            \/ (REq(p.gain, Head(s).gain) /\ p.ind < Head(s).ind)
         THEN <<p>> \o s
         ELSE <<Head(s)>> \o window_sorted_insert(Tail(s), p)

RECURSIVE window_peaks(_, _, _, _)
window_peaks(score, inds, order, i) ==
    IF i > Len(score) THEN <<>>
    ELSE LET rest == window_peaks(score, inds, order, i + 1)
         IN  IF window_is_peak(score, i, order)
             THEN window_sorted_insert(rest, [gain |-> score[i], ind |-> inds[i]])
             ELSE rest

\* Window._seg(pen=pen): the while loop; peak_inds.pop() takes the last
RECURSIVE window_seg(_, _, _, _)
window_seg(signal, pen, bkps, peak_inds) ==
    IF peak_inds = <<>> THEN bkps
    ELSE LET bkp == peak_inds[Len(peak_inds)].ind
             error == sum_of_costs(signal, bkps)
             gain == RSub(error, sum_of_costs(signal, SortedInsert(bkps, bkp)))
         IN  IF RLess(pen, gain)
             THEN window_seg(signal, pen, SortedInsert(bkps, bkp),
                             SubSeq(peak_inds, 1, Len(peak_inds) - 1))
             ELSE bkps

\* Window(width=width, model="l2").fit(signal).predict(pen=pen)
window_predict(signal, width, pen) ==
    LET n == Len(signal)
        inds == window_inds(n, width)
    IN  IF window_width(width) \div 2 < cost_min_size /\ inds # <<>>
        THEN Raise("NotEnoughPoints")
        ELSE IF ~sanity_check(n, 0, jump, min_size)
        THEN Raise("BadSegmentationParameters")
        ELSE LET score == [i \in 1..Len(inds) |-> window_score(signal, width, inds[i])]
                 order == Max(Max(window_width(width), 2 * min_size) \div (2 * jump), 1)
             IN  Return(window_seg(signal, RInt(pen), <<n>>,
                                   window_peaks(score, inds, order, 1)))

(***************************************************************************)
(* detect_ruptures                                                         *)
(***************************************************************************)
\* the algorithm name with the method left out of it: one name for every method
algorithm_name_fixed(method) == "Ruptures_pelt_l2"

\* f"Ruptures_{method}_{model}" for model = "l2", the only cost model called
algorithm_name(method) ==
    CASE method = "pelt" -> "Ruptures_pelt_l2"
      [] method = "binseg" -> "Ruptures_binseg_l2"
      [] method = "window" -> "Ruptures_window_l2"

\* the if/elif chain choosing the estimator: the predicted bkps, or the
\* exception raised
ruptures_bkps(signal, method, pen, width, n_bkps) ==
    CASE method = "pelt" -> pelt_predict(signal, pen)
      [] method = "binseg" -> binseg_predict(signal, n_bkps)
      [] method = "window" -> window_predict(signal, width, pen)
      [] OTHER -> Raise("ValueError")

\* bkps = [x for x in bkps if x < len(signal)]
drop_last_index(bkps, n) == Within(bkps, 0, n)

\* the body of the try block for one series (a row), given the predicted bkps
ruptures_row(sid, sig, method, bkps, target, tol) ==
    LET detected_years == map_indices_to_years(drop_last_index(bkps, Len(sig.value)),
                                               sig.year)
        hit == check_target_hit(detected_years, target, tol)
    IN  [series_id |-> sid, algorithm |-> algorithm_name(method),
         detected_years |-> detected_years,
         hit_target |-> hit.is_hit, hit_year |-> hit.hit_val]

\* the for loop without its try/except: an exception raised for one series
\* ends the call, and no row of the batch is returned
RECURSIVE ruptures_loop_unguarded(_, _, _, _, _, _, _, _)
ruptures_loop_unguarded(table, sids, method, pen, width, n_bkps, target, tol) ==
    IF sids = <<>> THEN [rows |-> <<>>, caught |-> {}]
    ELSE LET sid == Head(sids)
             rest == ruptures_loop_unguarded(table, Tail(sids), method, pen, width,
                                             n_bkps, target, tol)
             sig == get_signal(table, sid)
         IN  IF skipped(sig, width) THEN rest
             ELSE LET body(bkps) ==
                          IF IsRaise(bkps)
                          THEN [rows |-> <<>>,
                                caught |-> rest.caught \cup {<<sid, method>>}]
                          ELSE IF rest.caught # {} THEN rest
                          ELSE [rows |-> <<ruptures_row(sid, sig, method, bkps.value,
                                                        target, tol)>> \o rest.rows,
                                caught |-> rest.caught]
                  IN  body(ruptures_bkps(sig.value, method, pen, width, n_bkps))

\* the for loop of detect_ruptures over the series sids: the rows appended and
\* the (series, algorithm) pairs whose exception was caught
RECURSIVE ruptures_loop(_, _, _, _, _, _, _, _)
ruptures_loop(table, sids, method, pen, width, n_bkps, target, tol) ==
    IF sids = <<>> THEN [rows |-> <<>>, caught |-> {}]
    ELSE LET sid == Head(sids)
             rest == ruptures_loop(table, Tail(sids), method, pen, width, n_bkps,
                                   target, tol)
             sig == get_signal(table, sid)
         IN  IF skipped(sig, width) THEN rest
             ELSE LET body(bkps) ==
                          IF IsRaise(bkps)
                          THEN [rows |-> rest.rows,
                                caught |-> rest.caught \cup {<<sid, method>>}]
                          ELSE [rows |-> <<ruptures_row(sid, sig, method, bkps.value,
                                                        target, tol)>> \o rest.rows,
                                caught |-> rest.caught]
                  IN  body(ruptures_bkps(sig.value, method, pen, width, n_bkps))

detect_ruptures(table, method, pen, width, n_bkps, target, tol) ==
    ruptures_loop(table, unique_series(table), method, pen, width, n_bkps, target, tol)

(***************************************************************************)
(* detect_cusum                                                            *)
(***************************************************************************)
detect_cusum(table, target, tol) ==
    [rows |-> cusum_rows(table, unique_series(table), target, tol), caught |-> {}]

(***************************************************************************)
(* 3. detect_bayesian                                                      *)
(***************************************************************************)
\* The call of lines 183-188.  Its second argument is partial(const_prior,
\* l=len(signal)+1): with the global `partial` unbound, evaluating it raises
\* NameError.  With it bound, offline_changepoint_detection evaluates the
\* prior as prior_function(t); const_prior of the module the import of line 9
\* names (bayesian_changepoint_detection.priors) is const_prior(t, p), it
\* has no parameter l, and the call raises TypeError.
offline_changepoint_detection(signal, bound) ==
    IF ~bound THEN Raise("NameError") ELSE Raise("TypeError")

RECURSIVE bayesian_loop(_, _, _)
bayesian_loop(table, sids, bound) ==
    IF sids = <<>> THEN [rows |-> <<>>, caught |-> {}]
    ELSE LET sid == Head(sids)
             rest == bayesian_loop(table, Tail(sids), bound)
             sig == get_signal(table, sid)
         IN  IF skipped(sig, 3) THEN rest
             ELSE IF IsRaise(offline_changepoint_detection(sig.value, bound))
                  THEN [rows |-> rest.rows,
                        caught |-> rest.caught \cup {<<sid, "bayesian">>}]
                  ELSE rest

detect_bayesian(table, has_bayesian, bound) ==
    IF ~has_bayesian THEN [rows |-> <<>>, caught |-> {}]
    ELSE bayesian_loop(table, unique_series(table), bound)

(***************************************************************************)
(* analyze_all                                                             *)
(***************************************************************************)
\* the penalty analyze_all passes to Pelt and Window (pen=10, in hundredths)
AnalyzeAllPen == 1000
\* the n_bkps analyze_all passes to Binseg
AnalyzeAllNBkps == 3
\* the width analyze_all passes to Window (and the default of detect_ruptures)
DefaultWidth == 3

\* the columns of the frame pd.concat builds: the union of the frames' columns
RECURSIVE Columns(_)
Columns(rows) ==
    IF rows = <<>> THEN {} ELSE DOMAIN Head(rows) \cup Columns(Tail(rows))

\* pd.concat(dfs, ignore_index=True): the rows in order, a column a frame
\* lacks filled with NaN
RECURSIVE Reindex(_, _)
Reindex(rows, columns) ==
    IF rows = <<>> THEN <<>>
    ELSE <<[c \in columns |-> IF c \in DOMAIN Head(rows) THEN Head(rows)[c] ELSE NaN]>>
         \o Reindex(Tail(rows), columns)

Concat(rows) == Reindex(rows, Columns(rows))

RowLess(r, q) ==
    \/ Rank(SeriesOrder, r.series_id) < Rank(SeriesOrder, q.series_id)
    \/ /\ r.series_id = q.series_id
       /\ Rank(AlgorithmOrder, r.algorithm) < Rank(AlgorithmOrder, q.algorithm)

RECURSIVE InsertRow(_, _)
InsertRow(s, r) ==
    IF s = <<>> THEN <<r>>
    ELSE IF RowLess(r, Head(s)) THEN <<r>> \o s
         ELSE <<Head(s)>> \o InsertRow(Tail(s), r)

\* final_df.sort_values(["series_id", "algorithm"]); an empty frame built from
\* empty frames has no column, and sorting it raises KeyError
RECURSIVE SortRows(_)
SortRows(rows) ==
    IF rows = <<>> THEN <<>>
    ELSE InsertRow(SortRows(SubSeq(rows, 1, Len(rows) - 1)), rows[Len(rows)])

sort_values(rows) == IF rows = <<>> THEN Raise("KeyError") ELSE Return(SortRows(rows))

analyze_all(table, target, tol, has_bayesian) ==
    LET sorted(final_df, caught_) ==
            [rows |-> final_df.value, raised |-> final_df.raised, caught |-> caught_]
        combined(df_pelt, df_binseg, df_win, df_cusum, df_bayes) ==
            sorted(sort_values(Concat(df_pelt.rows \o df_binseg.rows \o df_win.rows
                                      \o df_cusum.rows \o df_bayes.rows)),
                   df_pelt.caught \cup df_binseg.caught \cup df_win.caught
                       \cup df_bayes.caught)
    IN  combined(detect_ruptures(table, "pelt", AnalyzeAllPen, DefaultWidth, 5,
                                 target, tol),
                 detect_ruptures(table, "binseg", AnalyzeAllPen, DefaultWidth,
                                 AnalyzeAllNBkps, target, tol),
                 detect_ruptures(table, "window", AnalyzeAllPen, DefaultWidth, 5,
                                 target, tol),
                 detect_cusum(table, target, tol),
                 detect_bayesian(table, has_bayesian, TRUE))

(***************************************************************************)
(* ChangePointAnalyzer                                                     *)
(***************************************************************************)
RMul(p, q) ==
    LET g1 == Gcd(Abs(p[1]), q[2])
        g2 == Gcd(Abs(q[1]), p[2])
    IN  Rat((p[1] \div g1) * (q[1] \div g2), (p[2] \div g2) * (q[2] \div g1))

\* p / q for q # 0
RDiv(p, q) == RMul(p, IF q[1] < 0 THEN <<-q[2], -q[1]>> ELSE <<q[2], q[1]>>)

Sign(x) == IF x < 0 THEN -1 ELSE IF x > 0 THEN 1 ELSE 0

\* np.mean(s)
Mean(s) == Rat(SumSeq(s), Len(s))

\* the sum of squared deviations of s from its mean: (n - 1) * np.var(s, ddof=1)
SumSqDev(s) == Rat(DevNum(s), Len(s))

\* An effect size d is held as its sign and its square, d being a square
\* root: [sign |-> -1 | 0 | 1, sq |-> d * d].
Zero_d == [sign |-> 0, sq |-> RInt(0)]

effect(diff, variance) ==
    [sign |-> Sign(diff[1]), sq |-> RDiv(RMul(diff, diff), variance)]

\* _calculate_cohens_d with np.var(group1) in place of np.var(group1, ddof=1)
\* in the branch of a single post value
calculate_cohens_d_population(group1, group2) ==
    LET n1 == Len(group1)
        n2 == Len(group2)
        diff == RSub(Mean(group2), Mean(group1))
    IN  IF n1 < 2 THEN Zero_d
        ELSE IF n2 = 1
        THEN LET var1 == RDiv(SumSqDev(group1), RInt(n1))
             IN  IF var1[1] = 0 THEN Zero_d ELSE effect(diff, var1)
        ELSE LET pooled_var == RDiv(RAdd(SumSqDev(group1), SumSqDev(group2)),
                                    RInt(n1 + n2 - 2))
             IN  IF pooled_var[1] = 0 THEN Zero_d ELSE effect(diff, pooled_var)

\* _calculate_cohens_d(group1, group2)
calculate_cohens_d(group1, group2) ==
    LET n1 == Len(group1)
        n2 == Len(group2)
        diff == RSub(Mean(group2), Mean(group1))
    IN  IF n1 < 2 THEN Zero_d
        ELSE IF n2 = 1
        THEN LET var1 == RDiv(SumSqDev(group1), RInt(n1 - 1))
             IN  IF var1[1] = 0 THEN Zero_d ELSE effect(diff, var1)
        ELSE LET pooled_var == RDiv(RAdd(SumSqDev(group1), SumSqDev(group2)),
                                    RInt(n1 + n2 - 2))
             IN  IF pooled_var[1] = 0 THEN Zero_d ELSE effect(diff, pooled_var)

\* the thresholds applied to d itself, without abs(): every negative d is
\* below 0.2
interpret_effect_size_signed(d_value) ==
    IF d_value.sign < 0 \/ RLess(d_value.sq, <<1, 25>>) THEN "Negligible"
    ELSE IF RLess(d_value.sq, <<1, 4>>) THEN "Weak"
    ELSE IF RLess(d_value.sq, <<16, 25>>) THEN "Medium"
    ELSE "Strong"

\* _interpret_effect_size(d_value): the thresholds 0.2, 0.5, 0.8 on |d|, that is
\* 1/25, 1/4, 16/25 on d * d.  The labels are the code's "Khong dang ke",
\* "Yeu (Weak)", "Vua (Medium)" and "Manh (Strong)".
interpret_effect_size(d_value) ==
    IF RLess(d_value.sq, <<1, 25>>) THEN "Negligible"
    ELSE IF RLess(d_value.sq, <<1, 4>>) THEN "Weak"
    ELSE IF RLess(d_value.sq, <<16, 25>>) THEN "Medium"
    ELSE "Strong"

\* _get_series(series_id): the rows of the series sorted by year
get_series(table, sid) == SortByYear(SelectRows(table, sid))

\* detected_results[detected_results['hit_target'] == True]
RECURSIVE target_hits(_)
target_hits(rows) ==
    IF rows = <<>> THEN <<>>
    ELSE (IF Head(rows).hit_target = TRUE THEN <<Head(rows)>> ELSE <<>>)
         \o target_hits(Tail(rows))

\* the pre-period taken up to and including the break year (year <= cp_year)
RECURSIVE values_before_inclusive(_, _)
values_before_inclusive(df_series, cp_year) ==
    IF df_series = <<>> THEN <<>>
    ELSE (IF Head(df_series).year <= cp_year THEN <<Head(df_series).value>> ELSE <<>>)
         \o values_before_inclusive(Tail(df_series), cp_year)

\* df_series[df_series['year'] < cp_year]['value'].values
RECURSIVE values_before(_, _)
values_before(df_series, cp_year) ==
    IF df_series = <<>> THEN <<>>
    ELSE (IF Head(df_series).year < cp_year THEN <<Head(df_series).value>> ELSE <<>>)
         \o values_before(Tail(df_series), cp_year)

\* the selection with > in place of >=: the point of cp_year itself left out
RECURSIVE values_after(_, _)
values_after(df_series, cp_year) ==
    IF df_series = <<>> THEN <<>>
    ELSE (IF Head(df_series).year > cp_year THEN <<Head(df_series).value>> ELSE <<>>)
         \o values_after(Tail(df_series), cp_year)

\* df_series[df_series['year'] >= cp_year]['value'].values
RECURSIVE values_from(_, _)
values_from(df_series, cp_year) ==
    IF df_series = <<>> THEN <<>>
    ELSE (IF Head(df_series).year >= cp_year THEN <<Head(df_series).value>> ELSE <<>>)
         \o values_from(Tail(df_series), cp_year)

\* np.var(s, ddof=1) for a sample of two points or more
Var(s) == RDiv(SumSqDev(s), RInt(Len(s) - 1))

\* A p-value is held as the test it is the result of and the samples the
\* test was given.
\* stats.ttest_1samp(a, popmean)
ttest_1samp(a, popmean) == [test |-> "ttest_1samp", a |-> a, popmean |-> popmean]

\* stats.ttest_ind(a, b, equal_var=False): Welch's test
ttest_ind(a, b) == [test |-> "ttest_ind", a |-> a, b |-> b]

\* the two-sample test whatever the size of post_data
t_test_two_sample(pre_data, post_data) == ttest_ind(pre_data, post_data)

\* lines 106-110: the test chosen by the size of post_data
t_test(pre_data, post_data) ==
    IF Len(post_data) = 1 THEN ttest_1samp(pre_data, Mean(post_data))
    ELSE ttest_ind(pre_data, post_data)

\* The t statistic and the degrees of freedom of a test: [kind |-> "t",
\* t_sq |-> t * t, df |-> df]; [kind |-> "nan"] where the statistic is NaN (a
\* sample of one point has no variance; 0/0) and [kind |-> "inf"] where it is
\* infinite (x/0).
statistic_of(diff, se_sq, df) ==
    IF se_sq[1] = 0 THEN (IF diff[1] = 0 THEN [kind |-> "nan"] ELSE [kind |-> "inf"])
    ELSE [kind |-> "t", t_sq |-> RDiv(RMul(diff, diff), se_sq), df |-> df]

\* the Welch-Satterthwaite degrees of freedom for vn1 = var1/n1 and
\* vn2 = var2/n2, not both zero
welch_df(vn1, vn2, n1, n2) ==
    RDiv(RMul(RAdd(vn1, vn2), RAdd(vn1, vn2)),
         RAdd(RDiv(RMul(vn1, vn1), RInt(n1 - 1)), RDiv(RMul(vn2, vn2), RInt(n2 - 1))))

statistic(p_val) ==
    IF p_val.test = "ttest_1samp"
    THEN IF Len(p_val.a) < 2 THEN [kind |-> "nan"]
         ELSE statistic_of(RSub(Mean(p_val.a), p_val.popmean),
                           RDiv(Var(p_val.a), RInt(Len(p_val.a))),
                           RInt(Len(p_val.a) - 1))
    ELSE IF Len(p_val.a) < 2 \/ Len(p_val.b) < 2 THEN [kind |-> "nan"]
         ELSE LET welch(vn1, vn2) ==
                      statistic_of(RSub(Mean(p_val.a), Mean(p_val.b)), RAdd(vn1, vn2),
                                   IF RAdd(vn1, vn2)[1] = 0 THEN RInt(1)
                                   ELSE welch_df(vn1, vn2, Len(p_val.a), Len(p_val.b)))
              IN  welch(RDiv(Var(p_val.a), RInt(Len(p_val.a))),
                        RDiv(Var(p_val.b), RInt(Len(p_val.b))))

\* The outcome of a comparison of a p-value with a level: <<TRUE>> or
\* <<FALSE>> where it is decided exactly, <<>> where it is not.
Known(b) == <<b>>
Unknown == <<>>

\* a / b < c / d for a, c >= 0 and b, d > 0, compared by their continued
\* fractions (the products a * d and c * b are never formed)
RECURSIVE FracLess(_, _, _, _)
FracLess(a, b, c, d) ==
    IF a \div b # c \div d THEN a \div b < c \div d
    ELSE IF a % b = 0 THEN c % d # 0
    ELSE IF c % d = 0 THEN FALSE
    ELSE FracLess(d, c % d, b, a % b)

\* the two-sided tail probability of the statistic st is below level, for
\* 0 < level < 1.  NaN < level is False; an infinite t has p = 0.  For two
\* degrees of freedom the tail probability is 1 - sqrt(t*t / (2 + t*t)), so
\* that, with q = 1 - level, p < level iff t*t > 2*q*q / (1 - q*q); for other
\* degrees of freedom the distribution has no form that exact arithmetic
\* decides.
tail_below(st, level) ==
    IF st.kind = "nan" THEN Known(FALSE)
    ELSE IF st.kind = "inf" THEN Known(TRUE)
    ELSE IF st.df = RInt(2)
    THEN LET q(num, den) == FracLess(2 * num * num, den * den - num * num,
                                     st.t_sq[1], st.t_sq[2])
         IN  Known(q(level[2] - level[1], level[2]))
    ELSE Unknown

\* the samples of the test have at most three points each
small_samples(p_val) ==
    /\ Len(p_val.a) <= 3
    /\ p_val.test = "ttest_ind" => Len(p_val.b) <= 3

\* p_val < level, decided for samples small enough for the statistic to be
\* held exactly
p_less(p_val, level) ==
    IF small_samples(p_val) THEN tail_below(statistic(p_val), level) ELSE Unknown

\* round(p_val, 4): the multiple of 1/10000 nearest to p_val, held as the
\* p-value it rounds
round4(p_val) == [ndigits |-> 4, of |-> p_val]

\* round(p_val, 4) < level for a level that is a multiple of 1/10000: the
\* rounded value is below it iff p_val < level - 1/20000
rounded_less(p_value, level) == p_less(p_value.of, RSub(level, <<1, 20000>>))

\* ((mean_post - mean_pre) / mean_pre) * 100; with mean_pre = 0 the float
\* division gives nan or an infinity, held as <<>>
percent_change(mean_pre, mean_post) ==
    IF mean_pre[1] = 0 THEN <<>>
    ELSE RMul(RInt(100), RDiv(RSub(mean_post, mean_pre), mean_pre))

\* round(x, 2), held as the value rounded and the number of digits
round2(x) == [ndigits |-> 2, of |-> x]

\* the loop body splitting at the analyzer's own target_year (its default,
\* 2025) instead of the row's hit_year
impact_of_row_at_target(table, row) ==
    LET sid == row.series_id
        cp_year == 2025
        record(pre_data, post_data, d_val, p_val) ==
            [series_id |-> sid,
             break_point |-> cp_year,
             pre_data |-> pre_data,
             post_data |-> post_data,
             p_value |-> round4(p_val),
             significant |-> p_less(p_val, <<1, 20>>),
             d_val |-> d_val,
             cohen_d |-> round2(d_val),
             delta_pct |-> round2(percent_change(Mean(pre_data), Mean(post_data))),
             magnitude |-> interpret_effect_size(d_val)]
        split(pre_data, post_data) ==
            IF Len(pre_data) = 0 \/ Len(post_data) = 0 THEN <<>>
            ELSE <<record(pre_data, post_data, calculate_cohens_d(pre_data, post_data),
                          t_test(pre_data, post_data))>>
        body(df_series) ==
            IF df_series = <<>> THEN <<>>
            ELSE split(values_before(df_series, cp_year), values_from(df_series, cp_year))
    IN  body(get_series(table, sid))

\* the body of the for loop for one hit row: the records it appends (none or
\* one).  pre_data and post_data are the loop's locals, kept in the record
\* and so is d_val, beside the columns the code stores; the rounded means
\* are not part of this record.
impact_of_row(table, row) ==
    LET sid == row.series_id
        cp_year == row.hit_year[1]
        record(pre_data, post_data, d_val, p_val) ==
            [series_id |-> sid,
             break_point |-> cp_year,
             pre_data |-> pre_data,
             post_data |-> post_data,
             p_value |-> round4(p_val),
             significant |-> p_less(p_val, <<1, 20>>),
             d_val |-> d_val,
             cohen_d |-> round2(d_val),
             delta_pct |-> round2(percent_change(Mean(pre_data), Mean(post_data))),
             magnitude |-> interpret_effect_size(d_val)]
        split(pre_data, post_data) ==
            IF Len(pre_data) = 0 \/ Len(post_data) = 0 THEN <<>>
            ELSE <<record(pre_data, post_data, calculate_cohens_d(pre_data, post_data),
                          t_test(pre_data, post_data))>>
        body(df_series) ==
            IF df_series = <<>> THEN <<>>
            ELSE split(values_before(df_series, cp_year), values_from(df_series, cp_year))
    IN  body(get_series(table, sid))

\* the for loop leaving at the first hit row that appends no record
RECURSIVE analysis_list_until_skip(_, _)
analysis_list_until_skip(table, hits) ==
    IF hits = <<>> THEN <<>>
    ELSE IF impact_of_row(table, Head(hits)) = <<>> THEN <<>>
    ELSE impact_of_row(table, Head(hits)) \o analysis_list_until_skip(table, Tail(hits))

\* the for loop over the hit rows: the records appended, in order
RECURSIVE analysis_list(_, _)
analysis_list(table, hits) ==
    IF hits = <<>> THEN <<>>
    ELSE impact_of_row(table, Head(hits)) \o analysis_list(table, Tail(hits))

\* analyze_impact(detected_results): the frame returned, the exception raised
\* ("" for none) and the value of self.summary_table afterwards.  A frame without the column hit_target (an
\* empty frame) raises KeyError at the first line; no hit row returns an
\* empty frame and leaves summary_table as it was.
analyze_impact(table, detected_results, old_summary) ==
    IF detected_results = <<>>
    THEN [returned |-> <<>>, raised |-> "KeyError", summary_table |-> old_summary]
    ELSE IF target_hits(detected_results) = <<>>
    THEN [returned |-> <<>>, raised |-> "", summary_table |-> old_summary]
    ELSE LET stored(t) == [returned |-> t, raised |-> "", summary_table |-> t]
         IN  stored(analysis_list(table, target_hits(detected_results)))

(***************************************************************************)
(* Inputs.  A table holds one or two series.  Short series take every      *)
(* sequence of Values; long ones are pulses (4.0 up to index k1, 6.0 up   *)
(* to k2, 4.0 after), long enough for the estimators' jump                 *)
(* to admit one, two or three breakpoints.                                 *)
(***************************************************************************)
\* scores in tenths: 4.5, 6.0, 6.2
Values == {45, 60, 62}
\* the series of the documented example: 6.0, 6.1, 6.2, 4.5 over 2022..2025
ExampleSeries == <<60, 61, 62, 45>>
\* 5.0, 5.0, 6.5, 8.4, 8.5: after two equal points, three whose Welch test
\* against them has a p-value between 0.04995 and 0.05
BorderlineSeries == <<50, 50, 65, 84, 85>>

\* three equal values whose float64 mean is not the value (6.1, 6.1, 6.1)
RoundedMeanSeries == <<61, 61, 61>>

\* four values whose effect size at the CUSUM break is just below 0.5
\* (5.0, 5.5 | 4.0, 9.0: d = 0.4975)
ThresholdSeries == <<50, 55, 40, 90>>
LongLens == {7, 12, 17}
\* where a pulse may start and end
PulseAt == {0, 4, 5, 10, 11, 15}

ShortSeries ==
    UNION {[1..n -> Values] : n \in 1..MaxShortLen} \cup {ExampleSeries, BorderlineSeries,
                                                         RoundedMeanSeries, ThresholdSeries}

Pulse(n, k1, k2) ==
    [i \in 1..n |-> IF k1 < i /\ i <= k2 THEN 60 ELSE 40]

LongSeries ==
    UNION {{Pulse(n, k1, k2) : k1 \in {k \in PulseAt : k < n},
                               k2 \in {k \in PulseAt \cup {n} : k <= n}} :
           n \in LongLens}

\* the rows of one series, its years stride apart and ending at 2025,
\* in ascending or descending order of year
SeriesRows(sid, values, stride, descending) ==
    LET n == Len(values)
        pos(i) == IF descending THEN n + 1 - i ELSE i
    IN  [i \in 1..n |-> [year |-> 2025 - stride * (n - pos(i)),
                         series_id |-> sid,
                         value |-> values[pos(i)]]]

\* the series "B" of a two-series table: one too short to be eligible, a
\* short one and a long one; its rows come first, latest year first, its
\* years two apart
SecondSeries == {<<60, 61>>, <<62, 60, 45>>, Pulse(12, 2, 7)}
FirstOfTwo == [1..3 -> {45, 62}]

ShortTables == {SeriesRows("A", v, 1, FALSE) : v \in ShortSeries}
LongTables == {SeriesRows("A", v, 1, FALSE) : v \in LongSeries}
TwoSeriesTables ==
    {SeriesRows("B", w, 2, TRUE) \o SeriesRows("A", v, 1, FALSE) :
         v \in FirstOfTwo, w \in SecondSeries}

\* (target_year, tolerance)
Configs == {<<2025, 1>>, <<2025, 0>>, <<2023, 0>>, <<2020, 3>>}
\* those a long series and a two-series table are run under
LongConfigs == {<<2023, 0>>, <<2020, 3>>}

\* the arguments detect_ruptures is called with; pen is in hundredths
RupturesCalls ==
    {[name |-> "detect_ruptures", method |-> "pelt", pen |-> p, width |-> 3, n_bkps |-> 5] :
        p \in {100, 1000}}
    \cup {[name |-> "detect_ruptures", method |-> "binseg", pen |-> 1000, width |-> 3,
           n_bkps |-> k] : k \in {1, 3}}
    \cup {[name |-> "detect_ruptures", method |-> "window", pen |-> 1000, width |-> 3,
           n_bkps |-> 5]}

(***************************************************************************)
(* The state machine: a detector and an analyzer built on the same table,  *)
(* whose methods are called in any order.                                  *)
(***************************************************************************)
Init ==
    /\ \E c \in Configs \cup LongConfigs :
           /\ target_year = c[1]
           /\ tolerance = c[2]
           /\ \/ data \in ShortTables /\ c \in Configs /\ HAS_BAYESIAN = FALSE
              \/ data \in LongTables /\ c \in LongConfigs /\ HAS_BAYESIAN = FALSE
              \/ data \in TwoSeriesTables /\ c \in LongConfigs /\ HAS_BAYESIAN \in BOOLEAN
    /\ partial_bound = FALSE
    /\ call = [name |-> "none"]
    /\ detected = <<>>
    /\ caught = {}
    /\ detect_raised = ""
    /\ impact_raised = ""
    /\ summary_table = <<>>
    /\ impact_call = [name |-> "none"]
    /\ returned = <<>>

DetectRuptures(c) ==
    \E r \in {detect_ruptures(data, c.method, c.pen, c.width, c.n_bkps,
                             target_year, tolerance)} :
        /\ call' = c
        /\ detected' = r.rows
        /\ caught' = r.caught
        /\ detect_raised' = ""
        /\ data' = data_after_get_signal(data)
        /\ UNCHANGED <<target_year, tolerance, HAS_BAYESIAN, partial_bound,
                       impact_raised, summary_table, impact_call, returned>>

DetectCusum ==
    \E r \in {detect_cusum(data, target_year, tolerance)} :
        /\ call' = [name |-> "detect_cusum"]
        /\ detected' = r.rows
        /\ caught' = r.caught
        /\ detect_raised' = ""
        /\ data' = data_after_get_signal(data)
        /\ UNCHANGED <<target_year, tolerance, HAS_BAYESIAN, partial_bound,
                       impact_raised, summary_table, impact_call, returned>>

DetectBayesian ==
    \E r \in {detect_bayesian(data, HAS_BAYESIAN, partial_bound)} :
        /\ call' = [name |-> "detect_bayesian"]
        /\ detected' = r.rows
        /\ caught' = r.caught
        /\ detect_raised' = ""
        /\ data' = data_after_get_signal(data)
        /\ UNCHANGED <<target_year, tolerance, HAS_BAYESIAN, partial_bound,
                       impact_raised, summary_table, impact_call, returned>>

AnalyzeAll ==
    \E r \in {analyze_all(data, target_year, tolerance, HAS_BAYESIAN)} :
        /\ call' = [name |-> "analyze_all"]
        /\ detected' = r.rows
        /\ caught' = r.caught
        /\ detect_raised' = r.raised
        /\ partial_bound' = (partial_bound \/ HAS_BAYESIAN)
        /\ data' = data_after_get_signal(data)
        /\ UNCHANGED <<target_year, tolerance, HAS_BAYESIAN,
                       impact_raised, summary_table, impact_call, returned>>

\* analyze_impact on the frame the last detector call returned (a call that
\* raised returned none)
AnalyzeImpact ==
    /\ call.name # "none"
    /\ detect_raised = ""
    /\ \E r \in {analyze_impact(data, detected, summary_table)} :
           /\ returned' = r.returned
           /\ impact_raised' = r.raised
           /\ summary_table' = r.summary_table
           /\ impact_call' = [name |-> "analyze_impact", detected_results |-> detected]
    /\ data' = data_after_get_series(data)
    /\ UNCHANGED <<target_year, tolerance, HAS_BAYESIAN, partial_bound,
                   call, detected, caught, detect_raised>>

Next ==
    \/ \E c \in RupturesCalls : DetectRuptures(c)
    \/ DetectCusum
    \/ DetectBayesian
    \/ AnalyzeAll
    \/ AnalyzeImpact

Spec == Init /\ [][Next]_vars

(***************************************************************************)
(* analyze_impact takes any frame of detection rows, not only the one a    *)
(* detector of the same table has just returned.  In the second            *)
(* specification it is given one hit row whose hit_year is a year of the   *)
(* row's series, the year before its first or the year after its last.     *)
(***************************************************************************)
GivenYears(table, sid) ==
    LET rows == get_series(table, sid)
    IN  {rows[i].year : i \in 1..Len(rows)}
        \cup {rows[1].year - 1, rows[Len(rows)].year + 1}

GivenFrames(table) ==
    UNION {{<<[series_id |-> sid, algorithm |-> "CUSUM_Mean", detected_years |-> <<y>>,
               hit_target |-> TRUE, hit_year |-> Some(y), cusum_values |-> "NaN"]>> :
               y \in GivenYears(table, sid)} :
           sid \in {table[i].series_id : i \in 1..Len(table)}}

AnalyzeImpactGiven ==
    \E frame \in GivenFrames(data) :
        /\ \E r \in {analyze_impact(data, frame, summary_table)} :
               /\ returned' = r.returned
               /\ impact_raised' = r.raised
               /\ summary_table' = r.summary_table
               /\ impact_call' = [name |-> "analyze_impact", detected_results |-> frame]
        /\ data' = data_after_get_series(data)
        /\ UNCHANGED <<target_year, tolerance, HAS_BAYESIAN, partial_bound,
                       call, detected, caught, detect_raised>>

SpecGiven == Init /\ [][AnalyzeImpactGiven]_vars

(***************************************************************************)
(* Properties of the rows a detector call returned (the frame `detected`). *)
(***************************************************************************)
\* year y is within tolerance of target_year, the bound included
WithinTolerance(y) == y - target_year <= tolerance /\ target_year - y <= tolerance

\* the years of a row's detected_years that are within tolerance
QualifyingYears(row) ==
    {row.detected_years[k] : k \in 1..Len(row.detected_years)}
        \cap {y \in (target_year - tolerance)..(target_year + tolerance) : WithinTolerance(y)}

\* C1: in every row a detector produced, hit_target is true if and only if at
\* least one year of the row's detected_years is within tolerance of
\* target_year, a distance equal to the tolerance counting as within.
C1_HitTargetIffYearWithinTolerance ==
    \A i \in 1..Len(detected) :
        detected[i].hit_target
            = (\E k \in 1..Len(detected[i].detected_years) :
                   WithinTolerance(detected[i].detected_years[k]))

\* a row that hits only on the bound: tolerance is positive, a detected year is
\* exactly tolerance away from target_year and none is closer
C1_HitOnTheBound ==
    \E i \in 1..Len(detected) :
        /\ tolerance > 0
        /\ detected[i].hit_target = TRUE
        /\ \A k \in 1..Len(detected[i].detected_years) :
               \/ detected[i].detected_years[k] - target_year >= tolerance
               \/ target_year - detected[i].detected_years[k] >= tolerance

\* C2: in every row, hit_year is the smallest year of detected_years within
\* tolerance of target_year; it is absent exactly when no detected year is
\* within tolerance, so it is present if and only if hit_target is true.
C2_HitYearIsSmallestQualifying ==
    \A i \in 1..Len(detected) :
        /\ QualifyingYears(detected[i]) = {} => detected[i].hit_year = None
        /\ QualifyingYears(detected[i]) # {} =>
               /\ detected[i].hit_year # None
               /\ detected[i].hit_year[1] \in QualifyingYears(detected[i])
               /\ \A y \in QualifyingYears(detected[i]) : detected[i].hit_year[1] <= y
        /\ (detected[i].hit_year # None) = (detected[i].hit_target = TRUE)

\* a row in which two detected years are within tolerance
C2_TwoQualifyingYears ==
    \E i \in 1..Len(detected) : Cardinality(QualifyingYears(detected[i])) >= 2

(***************************************************************************)
(* Properties of the CUSUM rows.                                           *)
(***************************************************************************)
\* the positions of the CUSUM rows in the frame the last detector call returned
CusumRows == {i \in 1..Len(detected) : detected[i].algorithm = "CUSUM_Mean"}

\* the rows of the input table that belong to series sid
PointsOf(sid) == {i \in 1..Len(data) : data[i].series_id = sid}

\* every point of series sid has the same value
IsConstant(sid) == \A i, j \in PointsOf(sid) : data[i].value = data[j].value

\* the series with at least three points
EligibleSeries == {data[i].series_id : i \in {j \in 1..Len(data) : Cardinality(PointsOf(data[j].series_id)) >= 3}}

\* the last detector call ran detect_cusum to completion
CusumHasRun ==
    \/ call.name = "detect_cusum"
    \/ call.name = "analyze_all" /\ detect_raised = ""

\* the standard deviation np.std computes for series sid is exactly 0: its
\* values are all equal and their float64 mean is the value itself
ComputedStdIsZero(sid) ==
    IsConstant(sid) /\ mean_error_sign(get_signal(data, sid).value) = 0

\* C3 (as the code behaves): for every series of at least three points the
\* CUSUM detector produces one row, and the row's detected_years holds at most
\* one year: exactly one when the computed standard deviation is not 0 (the
\* values are not all equal, or they are and their mean rounds), none when
\* it is 0 (np.std(signal) == 0).
C3_CusumOneYearUnlessConstant ==
    /\ \A i \in CusumRows :
           Len(detected[i].detected_years)
               = (IF ComputedStdIsZero(detected[i].series_id) THEN 0 ELSE 1)
    /\ CusumHasRun =>
           \A sid \in EligibleSeries :
               Cardinality({i \in CusumRows : detected[i].series_id = sid}) = 1

\* a CUSUM row has been produced for a constant series, and it holds no year
C3_ConstantSeriesRowWithoutYear ==
    \E i \in CusumRows :
        /\ IsConstant(detected[i].series_id)
        /\ detected[i].series_id \in EligibleSeries
        /\ detected[i].detected_years = <<>>

\* C3 (as stated): every CUSUM row holds exactly one detected year, a constant
\* series included.
C3_CusumExactlyOneYear ==
    \A i \in CusumRows : Len(detected[i].detected_years) = 1

\* n times the cumulative sum of deviations from the mean up to position m:
\* n * sum_{j <= m} (v[j] - mean(v)), an integer
PrefixDeviation(v, m) == Len(v) * SumSeq(SubSeq(v, 1, m)) - m * SumSeq(v)

\* position m is the first one where |PrefixDeviation| is largest
IsFirstLargestDeviation(v, m) ==
    /\ \A j \in 1..Len(v) : Abs(PrefixDeviation(v, j)) <= Abs(PrefixDeviation(v, m))
    /\ \A j \in 1..(m - 1) : Abs(PrefixDeviation(v, j)) < Abs(PrefixDeviation(v, m))

\* position m (2..n) follows a largest absolute step |v[m] - v[m-1]|
FollowsLargestStep(v, m) ==
    \A j \in 2..Len(v) : Abs(v[j] - v[j - 1]) <= Abs(v[m] - v[m - 1])

ScenarioA ==
    /\ data = SeriesRows("A", ExampleSeries, 1, FALSE)
    /\ target_year = 2025
    /\ tolerance = 1

\* the last analyze_impact call was given a frame that holds a CUSUM row
AnalyzedCusumRow ==
    /\ impact_call.name = "analyze_impact"
    /\ \E j \in 1..Len(impact_call.detected_results) :
           impact_call.detected_results[j].algorithm = "CUSUM_Mean"

\* C5 (as the code behaves): in scenario A the CUSUM row has detected_years =
\* [2024], hit_target true and hit_year 2024; the impact analysis of a frame
\* holding that row emits exactly one record, which splits the series into
\* pre = [6.0, 6.1] and post = [6.2, 4.5] and whose magnitude is Strong.
C5_ScenarioA_Break2024 ==
    ScenarioA =>
        /\ \A i \in CusumRows :
               /\ detected[i].detected_years = <<2024>>
               /\ detected[i].hit_target = TRUE
               /\ detected[i].hit_year = Some(2024)
        /\ AnalyzedCusumRow =>
               /\ impact_raised = ""
               /\ Len(returned) = 1
               /\ returned[1].break_point = 2024
               /\ returned[1].pre_data = <<60, 61>>
               /\ returned[1].post_data = <<62, 45>>
               /\ returned[1].magnitude = "Strong"

\* scenario A has been run through detect_cusum and analyze_impact
C5_ScenarioA_Analyzed ==
    /\ ScenarioA
    /\ call.name = "detect_cusum"
    /\ AnalyzedCusumRow
    /\ impact_call.detected_results = detected
    /\ Len(returned) = 1

\* C5 (as stated): in scenario A the CUSUM row has detected_years = [2025] and
\* hit_target true, and the impact analysis of that hit splits the series into
\* pre = [6.0, 6.1, 6.2] and post = [4.5] and emits exactly one record, of
\* magnitude Strong.
C5_ScenarioA_Break2025 ==
    ScenarioA =>
        /\ \A i \in CusumRows :
               /\ detected[i].detected_years = <<2025>>
               /\ detected[i].hit_target = TRUE
        /\ AnalyzedCusumRow =>
               /\ Len(returned) = 1
               /\ returned[1].pre_data = <<60, 61, 62>>
               /\ returned[1].post_data = <<45>>
               /\ returned[1].magnitude = "Strong"

\* scenario B: one series of four equal values
ScenarioB ==
    /\ Len(data) = 4
    /\ \A i, j \in 1..Len(data) :
           data[i].series_id = data[j].series_id /\ data[i].value = data[j].value

\* C6: in scenario B, whatever target_year and tolerance, every row of the
\* ensemble's result has hit_target false, and the impact analysis of that
\* result emits no record (and raises nothing).
C6_ScenarioB_NoHitNoRecord ==
    ScenarioB =>
        /\ \A i \in 1..Len(detected) : detected[i].hit_target = FALSE
        /\ returned = <<>>
        /\ (impact_call.name = "analyze_impact" /\ impact_call.detected_results # <<>>)
               => impact_raised = ""

\* scenario B has been run through analyze_all, whose rows were then analyzed
C6_ScenarioB_Analyzed ==
    /\ ScenarioB
    /\ call.name = "analyze_all"
    /\ Len(detected) >= 3
    /\ impact_call.name = "analyze_impact"
    /\ impact_call.detected_results = detected

(***************************************************************************)
(* Properties of the segmentation rows (Pelt).                             *)
(***************************************************************************)
\* the positions of the Pelt rows in the frame the last detector call returned
PeltRows == {i \in 1..Len(detected) : detected[i].algorithm = "Ruptures_pelt_l2"}

\* the penalty the last detector call passed to Pelt
PeltPenalty == IF call.name = "analyze_all" THEN AnalyzeAllPen ELSE call.pen

\* the values of series sid in order of year
ValuesOf(sid) == get_signal(data, sid).value

\* the breakpoint indexes a row reports: index b is reported as the year of
\* the last point before it
BreakpointsOf(row) ==
    {b \in 1..(Len(ValuesOf(row.series_id)) - 1) :
        \E k \in 1..Len(row.detected_years) :
            row.detected_years[k] = get_signal(data, row.series_id).year[b]}

\* the sum of the squared deviations of v[a+1..b] from their mean
SegmentCost(v, a, b) == Rat(DevNum(SubSeq(v, a + 1, b)), b - a)

\* the cost of cutting v at the breakpoints of set bkps, from index a on
RECURSIVE PartitionCost(_, _, _)
PartitionCost(v, a, bkps) ==
    IF bkps = {} THEN SegmentCost(v, a, Len(v))
    ELSE RAdd(SegmentCost(v, a, CHOOSE b \in bkps : \A c \in bkps : b <= c),
              PartitionCost(v, CHOOSE b \in bkps : \A c \in bkps : b <= c,
                            bkps \ {CHOOSE b \in bkps : \A c \in bkps : b <= c}))

\* the smallest of a non-empty set of rationals
Least(S) == CHOOSE x \in S : \A y \in S : RLeq(x, y)

\* F[t+1], t = 0..n: the least penalised cost of v[1..t] over all its
\* partitions into contiguous segments of length >= 1, every segment paying
\* pen (F[1] = -pen, so that a partition pays pen per breakpoint)
RECURSIVE LeastPenalisedCosts(_, _, _)
LeastPenalisedCosts(v, pen, F) ==
    IF Len(F) > Len(v) THEN F
    ELSE LeastPenalisedCosts(v, pen,
             Append(F, Least({RAdd(RAdd(F[s + 1], SegmentCost(v, s, Len(F))), RInt(pen)) :
                                  s \in 0..(Len(F) - 1)})))

\* C7 (as stated): the breakpoints of every Pelt row attain the least value of
\* (sum of the segments' squared deviations) + penalty * (number of
\* breakpoints) over all partitions of the series into contiguous segments of
\* length >= 1.
C7_SegmentationAttainsLeastCost ==
    \A i \in PeltRows :
        REq(RAdd(PartitionCost(ValuesOf(detected[i].series_id), 0,
                               BreakpointsOf(detected[i])),
                 RInt(PeltPenalty * Cardinality(BreakpointsOf(detected[i])))),
            LeastPenalisedCosts(ValuesOf(detected[i].series_id), PeltPenalty,
                                <<RInt(-PeltPenalty)>>)[Len(ValuesOf(detected[i].series_id)) + 1])

\* the penalties the last call's is compared with: those detect_ruptures is
\* called with for Pelt, and 0.1, 0.25, 4.0 and 30.0 (in hundredths)
Penalties == {c.pen : c \in {d \in RupturesCalls : d.method = "pelt"}} \cup {10, 25, 400, 3000}

\* the number of breakpoints of the row of series sid in a frame (0 without row)
NumBreakpoints(rows, sid) ==
    IF \E i \in 1..Len(rows) : rows[i].series_id = sid
    THEN Len(rows[CHOOSE i \in 1..Len(rows) : rows[i].series_id = sid].detected_years)
    ELSE 0

\* the frame detect_ruptures returns for Pelt with penalty pen on the same table
PeltFrame(pen) ==
    detect_ruptures(data, "pelt", pen, DefaultWidth, 5, target_year, tolerance).rows

\* the last call was detect_ruptures with method "pelt"
PeltCalled == call.name = "detect_ruptures" /\ call.method = "pelt"

\* C8: the penalty is an argument of detect_ruptures, and for every series
\* the number of breakpoints Pelt returns does not grow with the penalty:
\* a call with a larger penalty returns at most as many, one with a smaller
\* penalty at least as many.
C8_PenaltyMonotone ==
    PeltCalled =>
        \A p \in Penalties : \A sid \in EligibleSeries :
            /\ p > call.pen =>
                   NumBreakpoints(PeltFrame(p), sid) <= NumBreakpoints(detected, sid)
            /\ p < call.pen =>
                   NumBreakpoints(PeltFrame(p), sid) >= NumBreakpoints(detected, sid)

\* Pelt was called with a penalty for which it returns strictly fewer
\* breakpoints than it does with a smaller one
C8_LargerPenaltyFewerBreakpoints ==
    /\ PeltCalled
    /\ \E p \in Penalties : \E sid \in EligibleSeries :
           /\ p < call.pen
           /\ NumBreakpoints(PeltFrame(p), sid) > NumBreakpoints(detected, sid)

(***************************************************************************)
(* Properties of every detector's rows.                                    *)
(***************************************************************************)
\* C9: in every row, detected_years is strictly ascending (hence without
\* repetition) and each of its years is the year of a point of the row's series.
C9_DetectedYearsWellFormed ==
    \A i \in 1..Len(detected) :
        /\ \A k \in 1..(Len(detected[i].detected_years) - 1) :
               detected[i].detected_years[k] < detected[i].detected_years[k + 1]
        /\ \A k \in 1..Len(detected[i].detected_years) :
               \E j \in PointsOf(detected[i].series_id) :
                   data[j].year = detected[i].detected_years[k]

\* a row with several detected years
C9_RowWithSeveralYears ==
    \E i \in 1..Len(detected) : Len(detected[i].detected_years) >= 2

(***************************************************************************)
(* Properties of the ensemble (analyze_all).                               *)
(***************************************************************************)
\* the names of the algorithms analyze_all runs
EnsembleAlgorithms ==
    {"Ruptures_pelt_l2", "Ruptures_binseg_l2", "Ruptures_window_l2", "CUSUM_Mean",
     "Bayesian_Offline"}

\* the positions of the rows of series sid in the frame of the last call
RowsOfSeries(sid) == {i \in 1..Len(detected) : detected[i].series_id = sid}

\* C10 (as the code behaves): one run of analyze_all yields, for each series,
\* at most one row per algorithm it runs (Pelt, Binseg, Window, CUSUM and the
\* Bayesian detector), hence at most five rows, and never two rows with the
\* same (series_id, algorithm) pair.
C10_AtMostOneRowPerAlgorithm ==
    call.name = "analyze_all" =>
        /\ \A i \in 1..Len(detected) : detected[i].algorithm \in EnsembleAlgorithms
        /\ \A i, j \in 1..Len(detected) :
               (detected[i].series_id = detected[j].series_id
                /\ detected[i].algorithm = detected[j].algorithm) => i = j
        /\ \A i \in 1..Len(detected) :
               Cardinality(RowsOfSeries(detected[i].series_id)) <= 5

\* a run of analyze_all that yields four rows for one series
C10_FourRowsForOneSeries ==
    /\ call.name = "analyze_all"
    /\ \E i \in 1..Len(detected) : Cardinality(RowsOfSeries(detected[i].series_id)) = 4

\* C10 (as stated): one run of analyze_all yields at most three rows for each
\* series, and never two rows with the same (series_id, algorithm) pair.
C10_AtMostThreeRows ==
    call.name = "analyze_all" =>
        /\ \A i \in 1..Len(detected) :
               Cardinality(RowsOfSeries(detected[i].series_id)) <= 3
        /\ \A i, j \in 1..Len(detected) :
               (detected[i].series_id = detected[j].series_id
                /\ detected[i].algorithm = detected[j].algorithm) => i = j

(***************************************************************************)
(* C11  An ensemble run (analyze_all) completes without raising whatever   *)
(* the number of points of the series, also when no series has the three   *)
(* points a detector needs, and a series with fewer than three points      *)
(* contributes no row.                                                     *)
(***************************************************************************)
C11_EnsembleCompletesWithoutEligibleSeries ==
    call.name = "analyze_all" =>
        /\ detect_raised = ""
        /\ \A i \in 1..Len(detected) : detected[i].series_id \in EligibleSeries

(***************************************************************************)
(* C12  Failure isolation.  When a detector raises while processing one    *)
(* series, the call returns normally, that (series, algorithm) pair has no *)
(* row, and every series has exactly the rows the same call gives it on a  *)
(* table holding that series alone.                                        *)
(***************************************************************************)
\* the series of the table, and the table holding one of them alone
SeriesOfData == {data[i].series_id : i \in 1..Len(data)}
Alone(sid) == SelectRows(data, sid)

\* the rows the last detector call returns on a table
LastCallOn(table) ==
    CASE call.name = "detect_ruptures" ->
             detect_ruptures(table, call.method, call.pen, call.width, call.n_bkps,
                             target_year, tolerance).rows
      [] call.name = "detect_cusum" -> detect_cusum(table, target_year, tolerance).rows
      [] call.name = "detect_bayesian" ->
             detect_bayesian(table, HAS_BAYESIAN, partial_bound).rows
      [] call.name = "analyze_all" ->
             analyze_all(table, target_year, tolerance, HAS_BAYESIAN).rows
      [] OTHER -> <<>>

\* the rows of one series in a frame, in the order of the frame
RowsFor(rows, sid) == SelectSeq(rows, LAMBDA r : r.series_id = sid)

\* the algorithm column of the rows a detector method writes
AlgorithmOf(method) ==
    IF method = "bayesian" THEN "Bayesian_Offline" ELSE "Ruptures_" \o method \o "_l2"

C12_FailureIsolation ==
    caught # {} =>
        /\ detect_raised = ""
        /\ \A p \in caught :
               \A i \in 1..Len(detected) :
                   ~(detected[i].series_id = p[1] /\ detected[i].algorithm = AlgorithmOf(p[2]))
        /\ \A sid \in SeriesOfData :
               RowsFor(detected, sid) = RowsFor(LastCallOn(Alone(sid)), sid)

\* one series of the batch raised (Binseg on three points) and the other has
\* its row
C12_OneSeriesRaisedOtherHasRow ==
    /\ call.name = "detect_ruptures"
    /\ \E p \in caught : RowsFor(detected, p[1]) = <<>>
    /\ \E sid \in SeriesOfData : RowsFor(detected, sid) # <<>>

(***************************************************************************)
(* C13  For every eligible series the likelihood-scan (Bayesian) detector  *)
(* emits at most one detected year, and it emits that year when the score  *)
(* of the best split exceeds the threshold.  A series made of two constant *)
(* runs of different level is split without residual error by its best     *)
(* split, so that its score exceeds any threshold below 1: for such a      *)
(* series the claim requires a row with exactly one detected year.         *)
(***************************************************************************)
\* the values of series sid are one constant run followed by another of a
\* different level
IsStep(sid) ==
    \E k \in 1..(Len(ValuesOf(sid)) - 1) :
        /\ \A i \in 1..k : ValuesOf(sid)[i] = ValuesOf(sid)[1]
        /\ \A i \in (k + 1)..Len(ValuesOf(sid)) : ValuesOf(sid)[i] = ValuesOf(sid)[k + 1]
        /\ ValuesOf(sid)[1] # ValuesOf(sid)[k + 1]

BayesianRows(sid) ==
    {i \in 1..Len(detected) :
        detected[i].series_id = sid /\ detected[i].algorithm = "Bayesian_Offline"}

C13_LikelihoodScanEmitsBestSplit ==
    (call.name = "detect_bayesian" /\ HAS_BAYESIAN) =>
        \A sid \in EligibleSeries :
            /\ \A i \in BayesianRows(sid) : Len(detected[i].detected_years) <= 1
            /\ IsStep(sid) =>
                   \E i \in BayesianRows(sid) : Len(detected[i].detected_years) = 1

(***************************************************************************)
(* C14  Every ImpactRecord the impact analysis returns originates from a   *)
(* row of the analysed frame with hit_target true: the record has that     *)
(* row's series_id and its break_point is that row's hit_year.  Rows with  *)
(* hit_target false produce no record: the records, in order, match a      *)
(* subsequence of the hit rows.                                            *)
(***************************************************************************)
\* the frame the last analyze_impact call was given
AnalysedFrame == impact_call.detected_results
ImpactHasRun == impact_call.name = "analyze_impact"

\* the indexes of the rows of the analysed frame with hit_target true
HitRows == {j \in 1..Len(AnalysedFrame) : AnalysedFrame[j].hit_target = TRUE}

\* record rec originates from row j of the analysed frame
OriginatesFrom(rec, j) ==
    /\ j \in HitRows
    /\ rec.series_id = AnalysedFrame[j].series_id
    /\ AnalysedFrame[j].hit_year = Some(rec.break_point)

\* the records from the k-th on originate, in order, from hit rows after row j
RECURSIVE RecordsFollowRows(_, _)
RecordsFollowRows(k, j) ==
    IF k > Len(returned) THEN TRUE
    ELSE \E i \in (j + 1)..Len(AnalysedFrame) :
             /\ OriginatesFrom(returned[k], i)
             /\ RecordsFollowRows(k + 1, i)

C14_RecordsOriginateFromHitRows ==
    ImpactHasRun => RecordsFollowRows(1, 0)

\* a record was emitted for a frame that also holds a row with hit_target false
C14_RecordBesideMissRow ==
    /\ ImpactHasRun
    /\ returned # <<>>
    /\ \E j \in 1..Len(AnalysedFrame) : AnalysedFrame[j].hit_target = FALSE
    /\ \E k \in 1..Len(returned) : returned[k].break_point # target_year

(***************************************************************************)
(* C15  The impact table holds exactly one ImpactRecord per qualifying     *)
(* (series_id, hit_year) pair: when several algorithms report the same hit *)
(* year for the same series, the pair appears once, not once per           *)
(* algorithm.                                                              *)
(***************************************************************************)
\* the (series_id, hit_year) pairs of the hit rows whose series has points on
\* both sides of the split
QualifyingPairs ==
    {<<AnalysedFrame[j].series_id, AnalysedFrame[j].hit_year[1]>> : j \in
        {i \in HitRows :
            /\ \E p \in PointsOf(AnalysedFrame[i].series_id) :
                   data[p].year < AnalysedFrame[i].hit_year[1]
            /\ \E p \in PointsOf(AnalysedFrame[i].series_id) :
                   data[p].year >= AnalysedFrame[i].hit_year[1]}}

RecordsOfPair(pair) ==
    {k \in 1..Len(returned) :
        returned[k].series_id = pair[1] /\ returned[k].break_point = pair[2]}

C15_OneRecordPerPair ==
    ImpactHasRun =>
        /\ \A pair \in QualifyingPairs : Cardinality(RecordsOfPair(pair)) = 1
        /\ \A k \in 1..Len(returned) :
               <<returned[k].series_id, returned[k].break_point>> \in QualifyingPairs

(***************************************************************************)
(* C16  For every hit row the impact analysis splits the full series of    *)
(* the row's series_id into pre = the values with year < hit_year and      *)
(* post = the values with year >= hit_year, in order of year: no point is  *)
(* in both, every point is in one of them, and the value at hit_year       *)
(* itself is the first of post.                                            *)
(***************************************************************************)
\* the rows of series sid in order of year, and those of them with a year in
\* the set years
YearsOf(sid) == get_signal(data, sid).year
ValuesWithin(sid, years) ==
    LET idx == SelectSeq([i \in 1..Len(YearsOf(sid)) |-> i],
                         LAMBDA i : YearsOf(sid)[i] \in years)
    IN  [k \in 1..Len(idx) |-> ValuesOf(sid)[idx[k]]]

Split(rec) ==
    /\ rec.pre_data = ValuesWithin(rec.series_id, {y \in 1900..2100 : y < rec.break_point})
    /\ rec.post_data = ValuesWithin(rec.series_id, {y \in 1900..2100 : y >= rec.break_point})
    /\ rec.pre_data \o rec.post_data = ValuesOf(rec.series_id)
    /\ \A i \in PointsOf(rec.series_id) :
           data[i].year = rec.break_point => rec.post_data[1] = data[i].value

C16_PrePostPartition ==
    ImpactHasRun => \A k \in 1..Len(returned) : Split(returned[k])

\* a record whose break year is a year of the series, with points on both sides
C16_SplitAtYearOfSeries ==
    /\ ImpactHasRun
    /\ \E k \in 1..Len(returned) :
           /\ \E i \in PointsOf(returned[k].series_id) :
                  data[i].year = returned[k].break_point
           /\ Len(returned[k].pre_data) >= 2
           /\ Len(returned[k].post_data) >= 2

(***************************************************************************)
(* C17  The magnitude label is a function of |d| alone: Negligible for     *)
(* |d| < 0.2, Weak for 0.2 <= |d| < 0.5, Medium for 0.5 <= |d| < 0.8,      *)
(* Strong for |d| >= 0.8, the same for d and -d; so d = 0.15, 0.3, 0.6 and *)
(* 1.2 are labelled Negligible, Weak, Medium and Strong.                   *)
(***************************************************************************)
\* the effect size of sign s and absolute value num / den
EffectSize(s, num, den) == [sign |-> s, sq |-> Rat(num * num, den * den)]

\* |d| < num / den
AbsBelow(d, num, den) == d.sq[1] * den * den < num * num * d.sq[2]

\* the labels the ranges allow for d (exactly one when the ranges partition)
LabelsFor(d) ==
    (IF AbsBelow(d, 1, 5) THEN {"Negligible"} ELSE {})
    \cup (IF ~AbsBelow(d, 1, 5) /\ AbsBelow(d, 1, 2) THEN {"Weak"} ELSE {})
    \cup (IF ~AbsBelow(d, 1, 2) /\ AbsBelow(d, 4, 5) THEN {"Medium"} ELSE {})
    \cup (IF ~AbsBelow(d, 4, 5) THEN {"Strong"} ELSE {})

\* the effect sizes the claim names, and those on the thresholds
NamedEffectSizes ==
    {EffectSize(s, f[1], f[2]) :
        s \in {-1, 1},
        f \in {<<3, 20>>, <<3, 10>>, <<3, 5>>, <<6, 5>>, <<1, 5>>, <<1, 2>>, <<4, 5>>}}

C17_MagnitudeByThresholds ==
    /\ ImpactHasRun =>
           \A k \in 1..Len(returned) :
               LabelsFor(returned[k].d_val) = {returned[k].magnitude}
    /\ \A d \in NamedEffectSizes \cup {Zero_d} :
           LabelsFor(d) = {interpret_effect_size(d)}
    /\ \A s \in {-1, 1} :
           /\ interpret_effect_size(EffectSize(s, 3, 20)) = "Negligible"
           /\ interpret_effect_size(EffectSize(s, 3, 10)) = "Weak"
           /\ interpret_effect_size(EffectSize(s, 3, 5)) = "Medium"
           /\ interpret_effect_size(EffectSize(s, 6, 5)) = "Strong"

\* the analysis returned a record with a negative effect size labelled Weak
\* or Medium
C17_NegativeEffectMiddleLabel ==
    /\ ImpactHasRun
    /\ \E k \in 1..Len(returned) :
           /\ returned[k].d_val.sign = -1
           /\ returned[k].magnitude \in {"Weak", "Medium"}

(***************************************************************************)
(* C18  In every ImpactRecord the significant flag is true exactly when    *)
(* the p_value stored in that record (the p-value rounded to four          *)
(* decimals) is strictly less than 0.05.  Stated for the records in which  *)
(* both comparisons are decided.                                           *)
(***************************************************************************)
C18_SignificantIffStoredPValueBelow ==
    ImpactHasRun =>
        \A k \in 1..Len(returned) :
            (/\ returned[k].significant # Unknown
             /\ rounded_less(returned[k].p_value, <<1, 20>>) # Unknown)
            => (returned[k].significant = Known(TRUE)
                    <=> rounded_less(returned[k].p_value, <<1, 20>>) = Known(TRUE))

(***************************************************************************)
(* C19  The input table is read-only: no detector run (detect_ruptures,    *)
(* detect_cusum, detect_bayesian, analyze_all) and no impact analysis      *)
(* changes its rows, their order or their values.                          *)
(***************************************************************************)
C19_InputTableReadOnly == [][data' = data]_vars

\* the ensemble and the impact analysis have run on a table whose rows are
\* not in order of year, and the rows are still in that order
C19_UnsortedTableAfterRuns ==
    /\ call.name = "analyze_all"
    /\ impact_call.name = "analyze_impact"
    /\ returned # <<>>
    /\ \E i \in 1..(Len(data) - 1) : data[i].year > data[i + 1].year

(***************************************************************************)
(* C20  In the segmentation detector a breakpoint index b (the first index *)
(* of the new regime, 1 <= b <= n-1, counted from 0) is reported as a      *)
(* year of the series, and the index n the estimator returns last (the end *)
(* of the series) is never reported.                                       *)
(***************************************************************************)
\* the indexes the estimator of the last detect_ruptures call returns for
\* series sid (the call did not raise for it)
PredictedBkps(sid) ==
    ruptures_bkps(ValuesOf(sid), call.method, call.pen, call.width, call.n_bkps).value

RupturesRows ==
    IF call.name = "detect_ruptures" THEN 1..Len(detected) ELSE {}

\* the row reports each index below n, in order, as the year `shift` places
\* after the year of the last point of the old regime, and nothing else
ReportsBreakpoints(row, shift) ==
    LET bkps == PredictedBkps(row.series_id)
        years == YearsOf(row.series_id)
    IN  /\ bkps[Len(bkps)] = Len(years)
        /\ Len(row.detected_years) = Len(bkps) - 1
        /\ \A k \in 1..(Len(bkps) - 1) :
               /\ bkps[k] + shift \in 1..Len(years)
               /\ row.detected_years[k] = years[bkps[k] + shift]

\* C20 (as the code behaves): index b is reported as year[b-1], the year of
\* the last point of the old regime; the index n is never reported.
C20_BreakpointReportedAsYearBefore ==
    \A i \in RupturesRows : ReportsBreakpoints(detected[i], 0)

\* a detect_ruptures row that reports two breakpoints
C20_RowWithTwoBreakpoints ==
    \E i \in RupturesRows : Len(detected[i].detected_years) = 2

\* C20 as stated: index b is reported as year[b], the year of the first point
\* of the new regime.
C20_BreakpointReportedAsYearAt ==
    \A i \in RupturesRows : ReportsBreakpoints(detected[i], 1)

(***************************************************************************)
(* Constant series under Pelt.                                             *)
(***************************************************************************)
\* the series of the table whose values are all equal and that have at least
\* three points
ConstantSeries ==
    {sid \in SeriesOfData : IsConstant(sid) /\ Cardinality(PointsOf(sid)) >= 3}

\* the penalties a constant series is segmented with: those of Penalties and 0.01
ConstantPenalties == Penalties \cup {1}

\* the frame has exactly one row for series sid, and it reports no year
OneRowWithoutYears(rows, sid) ==
    /\ Len(RowsFor(rows, sid)) = 1
    /\ RowsFor(rows, sid)[1].algorithm = "Ruptures_pelt_l2"
    /\ RowsFor(rows, sid)[1].detected_years = <<>>

\* C21: for every series of at least three points whose values are all equal,
\* the Pelt call raises nothing for the series and returns one row for it whose
\* detected_years is empty; so does a call with any other penalty (0.01 up
\* to 30.0) on the same table.
C21_ConstantSeriesNoBreakpoint ==
    PeltCalled =>
        \A sid \in ConstantSeries :
            /\ <<sid, "pelt">> \notin caught
            /\ OneRowWithoutYears(detected, sid)
            /\ \A p \in ConstantPenalties :
                   LET r == detect_ruptures(data, "pelt", p, DefaultWidth, 5,
                                            target_year, tolerance)
                   IN  /\ <<sid, "pelt">> \notin r.caught
                       /\ OneRowWithoutYears(r.rows, sid)

\* Pelt was called on a table holding a constant series long enough to have
\* admissible breakpoints (seven points or more), and returned a row without years
C21_LongConstantSeriesSegmented ==
    /\ PeltCalled
    /\ \E sid \in ConstantSeries :
           /\ Cardinality(PointsOf(sid)) >= 7
           /\ OneRowWithoutYears(detected, sid)

(***************************************************************************)
(* Hit rows at a series boundary.                                          *)
(***************************************************************************)
\* the series of hit row j has points before its hit_year, and points at or
\* after it
HasPre(j) ==
    \E p \in PointsOf(AnalysedFrame[j].series_id) :
        data[p].year < AnalysedFrame[j].hit_year[1]
HasPost(j) ==
    \E p \in PointsOf(AnalysedFrame[j].series_id) :
        data[p].year >= AnalysedFrame[j].hit_year[1]
PairOf(j) == <<AnalysedFrame[j].series_id, AnalysedFrame[j].hit_year[1]>>

\* C22: an impact analysis of a frame with rows raises nothing; a hit row
\* whose pre or post partition is empty leaves no record, every other hit row
\* leaves one, whatever its place among the hit rows.
C22_EmptyPartitionSkipped ==
    (ImpactHasRun /\ AnalysedFrame # <<>>) =>
        /\ impact_raised = ""
        /\ Len(returned) = Cardinality({j \in HitRows : HasPre(j) /\ HasPost(j)})
        /\ \A j \in HitRows :
               IF HasPre(j) /\ HasPost(j)
               THEN RecordsOfPair(PairOf(j)) # {}
               ELSE RecordsOfPair(PairOf(j)) = {}

\* a hit row with an empty partition came before a hit row with both, and the
\* analysis returned the record of the later one
C22_SkippedRowBeforeRecord ==
    /\ ImpactHasRun
    /\ impact_raised = ""
    /\ \E j, i \in HitRows :
           /\ j < i
           /\ ~(HasPre(j) /\ HasPost(j))
           /\ HasPre(i) /\ HasPost(i)
           /\ RecordsOfPair(PairOf(i)) # {}

(***************************************************************************)
(* The effect size of a record whose post segment has several points.      *)
(***************************************************************************)
\* the Bessel-corrected variance of a segment, taken as 0 for a single point
VarOrZero(s) == IF Len(s) < 2 THEN RInt(0) ELSE Var(s)

\* ((n_pre-1)*var_pre + (n_post-1)*var_post) / (n_pre+n_post-2)
PooledVariance(pre, post) ==
    RDiv(RAdd(RMul(RInt(Len(pre) - 1), VarOrZero(pre)),
              RMul(RInt(Len(post) - 1), VarOrZero(post))),
         RInt(Len(pre) + Len(post) - 2))

\* d is (mean_post - mean_pre) / sqrt(PooledVariance), or 0 when that variance
\* is 0: stated on the sign of d and on its square
IsPooledD(d, pre, post) ==
    LET diff == RSub(Mean(post), Mean(pre))
        pooled == PooledVariance(pre, post)
    IN  IF pooled[1] = 0 THEN d = Zero_d
        ELSE /\ d.sign = Sign(diff[1])
             /\ REq(RMul(d.sq, pooled), RMul(diff, diff))

\* C23: in every record whose post segment has at least two points,
\* cohen_d is the pooled-variance d with var_pre taken as 0 for a pre segment
\* of one point; so it is non-zero when the means differ and post varies.
C23_PooledEffectSizeForAnyPre ==
    ImpactHasRun =>
        \A k \in 1..Len(returned) :
            Len(returned[k].post_data) >= 2 =>
                IsPooledD(returned[k].d_val, returned[k].pre_data,
                          returned[k].post_data)

(***************************************************************************)
(* The effect size of a record whose post segment is a single point.       *)
(***************************************************************************)
\* d is (mean_post - mean_pre) / std_pre with std_pre the square root of the
\* Bessel-corrected variance of pre, or 0 when that variance is 0 (or pre has
\* one point): stated on the sign of d and on its square
IsOneSampleD(d, pre, post) ==
    LET diff == RSub(Mean(post), Mean(pre))
    IN  IF VarOrZero(pre)[1] = 0 THEN d = Zero_d
        ELSE /\ d.sign = Sign(diff[1])
             /\ REq(RMul(d.sq, VarOrZero(pre)), RMul(diff, diff))

\* x rounded to two decimals is hundredths / 100 (x is strictly within half a
\* hundredth of it)
RoundsTo(x, hundredths) ==
    /\ RLess(RSub(RInt(2 * hundredths - 1), RMul(RInt(200), x.of)), RInt(0))
    /\ RLess(RSub(RMul(RInt(200), x.of), RInt(2 * hundredths + 1)), RInt(0))

\* the record is that of pre = [6.0, 6.1, 6.2] and post = [4.5]
IsExampleRecord(rec) == rec.pre_data = <<60, 61, 62>> /\ rec.post_data = <<45>>

TestOf(rec) == rec.p_value.of

\* C25: the p_value of a record is that of the one-sample test of the pre
\* segment against the single post value when the post segment has one point,
\* and that of the two-sample unequal-variance test between pre and post when
\* it has two or more; no record stores the p-value of another test.
C25_TestSelectedByPostSize ==
    ImpactHasRun =>
        \A k \in 1..Len(returned) :
            IF Len(returned[k].post_data) = 1
            THEN TestOf(returned[k]) =
                     [test |-> "ttest_1samp", a |-> returned[k].pre_data,
                      popmean |-> Rat(returned[k].post_data[1], 1)]
            ELSE TestOf(returned[k]) =
                     [test |-> "ttest_ind", a |-> returned[k].pre_data,
                      b |-> returned[k].post_data]

\* a record whose post segment is a single point and whose pre segment has
\* several, tested with the one-sample test
C25_OneSampleTestUsed ==
    /\ ImpactHasRun
    /\ \E k \in 1..Len(returned) :
           /\ Len(returned[k].post_data) = 1
           /\ Len(returned[k].pre_data) >= 2
           /\ TestOf(returned[k]).test = "ttest_1samp"

(***************************************************************************)
(* Independence of the series of a table.                                  *)
(***************************************************************************)
\* the table with its rows in the opposite order
Reversed(table) == [i \in 1..Len(table) |-> table[Len(table) + 1 - i]]

\* the records of one series in a table of records, in order
RecordsFor(records, sid) == SelectSeq(records, LAMBDA r : r.series_id = sid)

\* C26: on a table of several series, the rows a detector call returns for a
\* series are those the same call returns on a table holding that series
\* alone, and those it returns when the rows of the table are stored in the
\* opposite order; the records of the impact analysis for a series are
\* those of an analysis of that series alone with the rows of that series.
C26_SeriesIndependence ==
    Cardinality(SeriesOfData) >= 2 =>
        \A sid \in SeriesOfData :
            /\ (call.name # "none") =>
                   /\ RowsFor(detected, sid) = RowsFor(LastCallOn(Alone(sid)), sid)
                   /\ RowsFor(detected, sid) = RowsFor(LastCallOn(Reversed(data)), sid)
            /\ ImpactHasRun =>
                   RecordsFor(returned, sid) =
                       analyze_impact(Alone(sid), RowsFor(AnalysedFrame, sid), <<>>).returned

\* a detector call returned rows for both series of a table, and the analysis
\* of its frame returned a record
C26_TwoSeriesWithRowsAndRecord ==
    /\ ImpactHasRun
    /\ AnalysedFrame = detected
    /\ returned # <<>>
    /\ \E s1, s2 \in SeriesOfData :
           /\ s1 # s2
           /\ RowsFor(detected, s1) # <<>> /\ RowsFor(detected, s2) # <<>>

(***************************************************************************)
(* The final year of a series.                                             *)
(***************************************************************************)
\* the latest year of series sid
LastYearOf(sid) == YearsOf(sid)[Len(YearsOf(sid))]

\* C27: in every row a detector call or analyze_all returns, each detected
\* year is a year of the series before its last one, and the hit test of the
\* row's detected years with tolerance 0 against the last year of the series
\* fails; so when the detector's tolerance is 0 and its target year is the
\* last year of the series the row has hit_target false.
C27_FinalYearNeverDetected ==
    \A i \in 1..Len(detected) :
        /\ Len(YearsOf(detected[i].series_id)) >= 3
        /\ \A k \in 1..Len(detected[i].detected_years) :
               \E j \in 1..(Len(YearsOf(detected[i].series_id)) - 1) :
                   detected[i].detected_years[k] = YearsOf(detected[i].series_id)[j]
        /\ ~check_target_hit(detected[i].detected_years,
                             LastYearOf(detected[i].series_id), 0).is_hit
        /\ (tolerance = 0 /\ target_year = LastYearOf(detected[i].series_id)) =>
               detected[i].hit_target = FALSE

(***************************************************************************)
(* The analyzer's stored summary table.                                    *)
(***************************************************************************)
\* C28: after an impact analysis that returned, the analyzer's summary_table
\* is the table that call returned, also when the frame had no hit row and
\* the call returned an empty table.
C28_SummaryTableIsLastReturned ==
    (ImpactHasRun /\ impact_raised = "") => summary_table = returned

(***************************************************************************)
(* The magnitude and the stored effect size.                               *)
(***************************************************************************)
\* the absolute value of the stored cohen_d, round(d, 2), is below
\* hundredths / 100: |d| is below (hundredths - 0.5) / 100, that is,
\* d * d < (2 * hundredths - 1)^2 / 40000
StoredAbsBelow(stored, hundredths) ==
    FracLess(stored.of.sq[1], stored.of.sq[2],
             (2 * hundredths - 1) * (2 * hundredths - 1), 40000)

\* the label the thresholds 0.2 / 0.5 / 0.8 give the stored cohen_d
StoredLabel(stored) ==
    IF StoredAbsBelow(stored, 20) THEN "Negligible"
    ELSE IF StoredAbsBelow(stored, 50) THEN "Weak"
    ELSE IF StoredAbsBelow(stored, 80) THEN "Medium"
    ELSE "Strong"

\* C29: in every record, the thresholds 0.2 / 0.5 / 0.8 applied to the
\* absolute value of the stored cohen_d (the effect size rounded to two
\* decimals) give the stored magnitude.
C29_MagnitudeAgreesWithStoredEffectSize ==
    ImpactHasRun =>
        \A k \in 1..Len(returned) :
            StoredLabel(returned[k].cohen_d) = returned[k].magnitude

(***************************************************************************)
(* Impact analysis of the frame a detector returned for the same table.    *)
(***************************************************************************)
\* the first year of the series of row j of the analysed frame
FirstYearOfRow(j) == YearsOf(AnalysedFrame[j].series_id)[1]

\* the hit rows of the analysed frame with the pair of row j
RowsOfPair(j) == {i \in HitRows : PairOf(i) = PairOf(j)}

\* C30: the frame analysed being one a detector call returned for the same
\* table (every frame is), every hit row's hit_year is a year of its series and
\* its post partition is not empty; its pre partition is empty exactly when
\* hit_year is the first year of the series, in which case the row leaves no
\* record, and every hit row with a later hit_year leaves one record.
C30_SkippedOnlyAtFirstYear ==
    ImpactHasRun =>
        /\ impact_raised = "" =>
               Len(returned) =
                   Cardinality({j \in HitRows : AnalysedFrame[j].hit_year[1] > FirstYearOfRow(j)})
        /\ \A j \in HitRows :
               /\ \E p \in PointsOf(AnalysedFrame[j].series_id) :
                      data[p].year = AnalysedFrame[j].hit_year[1]
               /\ HasPost(j)
               /\ HasPre(j) <=> AnalysedFrame[j].hit_year[1] > FirstYearOfRow(j)
               /\ Cardinality(RecordsOfPair(PairOf(j))) =
                      (IF AnalysedFrame[j].hit_year[1] = FirstYearOfRow(j)
                       THEN 0 ELSE Cardinality(RowsOfPair(j)))

\* the frame of a detector call was analysed: its hit row at the last year of
\* a series left a record whose post segment is that single point
C30_RecordAtLastYear ==
    /\ ImpactHasRun
    /\ AnalysedFrame = detected
    /\ \E j \in HitRows :
           /\ AnalysedFrame[j].hit_year[1] = LastYearOf(AnalysedFrame[j].series_id)
           /\ \E k \in 1..Len(returned) :
                  /\ <<returned[k].series_id, returned[k].break_point>> = PairOf(j)
                  /\ Len(returned[k].post_data) = 1

====
